---- MODULE Spec2Model ----
(***************************************************************************)
(* Model of src/src/SnakeGame.js: the simulation core of the "Smooth       *)
(* Snake" React component (movement, body chain, food, projectiles,        *)
(* collisions, match state) together with the handlers that drive it.      *)
(*                                                                         *)
(* Numbers.  The program computes in IEEE doubles; the model computes in   *)
(* fixed point.  Positions, speeds and velocities are in 1/100 of a plane  *)
(* unit (PosScale), angles in 1/10000 rad (AngScale), cos/sin values in    *)
(* 1/10000 (TrigScale), times in milliseconds.  cos and sin are computed   *)
(* by their Taylor series after reduction to the first quadrant, the       *)
(* square root by the integer square root; every product stays below 2^31. *)
(* A distance test "sqrt(dx^2 + dy^2) < r" is decided on the squares.      *)
(***************************************************************************)
EXTENDS Integers, Sequences, FiniteSets

\* ------------------------------------------------------------- scales
PosScale == 100
AngScale == 10000
TrigScale == 10000

\* ------------------------------------------------------------- program constants
CANVAS_WIDTH == 600
CANVAS_HEIGHT == 600
SEGMENT_SPACING == 8
INITIAL_LENGTH == 15
PROJECTILE_SPEED == 8
PROJECTILE_LIFETIME == 1500
SHOOT_COOLDOWN == 1000
SLOW_DURATION == 1000
SLOW_FACTOR == 0

\* DIFFICULTY_SETTINGS, speeds in 1/100 unit per tick, rotation in 1/10000 rad
EasySpeed == 250
EasyRotationSpeed == 700
EasySpeedIncrement == 0
HardSpeed == 500
HardRotationSpeed == 1400
HardSpeedIncrement == 15
HardMaxSpeed == 1200

\* Math.PI and 2 * Math.PI in 1/10000 rad
PI == 31416
TWO_PI == 62832
HALF_PI == 15708

\* radii of the distance tests
FOOD_PICKUP_RADIUS == 15
SELF_HIT_RADIUS == 6
SELF_HIT_SKIP == 5
HEAD_HIT_RADIUS == 10
BODY_HIT_RADIUS == 6
PROJECTILE_HIT_RADIUS == 10
FOOD_HEAD_EXCLUSION == 50
FOOD_BODY_EXCLUSION == 30
FOOD_MARGIN == 20
FOOD_RANGE_CUT == 40

\* setScore(prev => prev + 10) and snake.length += 5
SCORE_PER_FOOD == 10
GROWTH_PER_FOOD == 5

\* Math.random() yields a value of [0, 1), in 1/10000
RandScale == 10000

\* setInterval(gameLoop, 1000 / 60): milliseconds of Date.now() between two ticks
TICK_MS == 17

\* ------------------------------------------------------------- state
VARIABLES
  gameStarted,     \* useState gameStarted
  gameOver,        \* useState gameOver
  gameOverReason,  \* useState gameOverReason
  winner,          \* useState winner
  difficulty,      \* useState difficulty: "easy" | "hard"
  gameMode,        \* useState gameMode: "single" | "multiplayer"
  score,           \* useState score (player 1)
  score2,          \* useState score2 (player 2)
  currentSpeed,    \* currentSpeedRef.current, 1/100 unit per tick
  snake,           \* snakeRef.current
  snake2,          \* snake2Ref.current
  food,            \* foodRef.current
  projectiles,     \* projectilesRef.current
  keysPressed,     \* keysPressed.current
  interval,        \* the setInterval of the game-loop effect: on while it is
                   \* registered, with the values its gameLoop closure was made with
  canvasSize,      \* useState canvasSize, in plane units
  isFullscreen,    \* useState isFullscreen: !!document.fullscreenElement as the
                   \* latest fullscreenchange handler found it
  listeners,       \* the values the registered handleFullscreenChange and
                   \* handleResize closures were made with (effect deps
                   \* isFullscreen, gameStarted)
  resizeTimers,    \* the setTimeout(updateCanvasSize, 100) calls of
                   \* handleFullscreenChange that are pending, oldest first, each
                   \* with the values of its closure
  document,        \* document.fullscreenElement set or not, the call of
                   \* requestFullscreen() or exitFullscreen() the browser has
                   \* still to carry out, and the number of fullscreenchange
                   \* events it has still to dispatch
  loopCanvasSize,  \* canvasSize of the latest render in which a dependency of
                   \* the game-loop effect (gameStarted, gameOver, gameMode)
                   \* changed: the render whose gameLoop the effect registers
  now,             \* Date.now(), ms
  ticks,           \* number of interval ticks run so far (bookkeeping of the model)
  staleTicks,      \* ticks run since gameOver was set and before the effect cleanup
  pickups,         \* food pickups of the current match (bookkeeping of the model)
  matches,         \* matches started so far (bookkeeping of the model)
  drawn,           \* pairs of Math.random() values drawn so far
  randoms,         \* the pairs of values Math.random() yields, in turn
  schedule         \* key and screen events still to come: <<tick, code, pressed>>

\* the state of the fullscreen and resize handling
screen == <<canvasSize, isFullscreen, listeners, resizeTimers, document, loopCanvasSize>>

vars == <<gameStarted, gameOver, gameOverReason, winner, difficulty, gameMode,
          score, score2, currentSpeed, snake, snake2, food, projectiles,
          keysPressed, interval, now, ticks, staleTicks, pickups, matches, drawn,
          schedule, randoms, screen>>

\* "const worldWidth = canvasSize.width" and "const worldHeight = canvasSize.height"
\* of moveSnake, updateProjectiles and generateFood, in 1/100 unit: canvasSize is
\* the one of the render whose closure runs, which is the interval's render while
\* the interval is registered and the latest render otherwise
worldWidth ==
  (IF interval.on THEN interval.canvasSize.width ELSE canvasSize.width) * PosScale

worldHeight ==
  (IF interval.on THEN interval.canvasSize.height ELSE canvasSize.height) * PosScale

\* ------------------------------------------------------------- arithmetic
Abs(n) == IF n < 0 THEN -n ELSE n

\* a / b rounded to the nearest integer (b > 0)
RDiv(a, b) == (2 * a + b) \div (2 * b)

RECURSIVE Isqrt(_)
\* floor of the square root (Math.sqrt on the model's integers)
Isqrt(n) ==
  IF n < 2 THEN n
  ELSE LET s == 2 * Isqrt(n \div 4)
       IN  IF (s + 1) * (s + 1) <= n THEN s + 1 ELSE s

\* Taylor series of cos on [0, pi/2]; x in 1/10000 rad, result in 1/10000
CosQ(x) ==
  LET t  == RDiv(x * x, AngScale)
      c1 == RDiv(TrigScale * t, 2 * AngScale)
      c2 == RDiv(c1 * t, 12 * AngScale)
      c3 == RDiv(c2 * t, 30 * AngScale)
      c4 == RDiv(c3 * t, 56 * AngScale)
      c5 == RDiv(c4 * t, 90 * AngScale)
  IN  TrigScale - c1 + c2 - c3 + c4 - c5

\* Taylor series of sin on [0, pi/2]
SinQ(x) ==
  LET t  == RDiv(x * x, AngScale)
      s0 == RDiv(x * TrigScale, AngScale)
      s1 == RDiv(s0 * t, 6 * AngScale)
      s2 == RDiv(s1 * t, 20 * AngScale)
      s3 == RDiv(s2 * t, 42 * AngScale)
      s4 == RDiv(s3 * t, 72 * AngScale)
      s5 == RDiv(s4 * t, 110 * AngScale)
  IN  s0 - s1 + s2 - s3 + s4 - s5

\* Math.cos for an angle in [-pi, pi]
Cos(a) ==
  LET x == Abs(a)
  IN  IF x <= HALF_PI THEN CosQ(x) ELSE -CosQ(PI - x)

\* Math.sin for an angle in [-pi, pi]
Sin(a) ==
  LET x == Abs(a)
      v == IF x <= HALF_PI THEN SinQ(x) ELSE SinQ(PI - x)
  IN  IF a < 0 THEN -v ELSE v

\* a faulty distance test that measures the shorter way round the plane on each axis
Within_Wrap(a, b, r) ==
  LET dx0 == Abs(a.x - b.x)
      dy0 == Abs(a.y - b.y)
      dx == IF 2 * dx0 > worldWidth THEN worldWidth - dx0 ELSE dx0
      dy == IF 2 * dy0 > worldHeight THEN worldHeight - dy0 ELSE dy0
      rr == r * PosScale
  IN  /\ dx < rr
      /\ dy < rr
      /\ dx * dx + dy * dy < rr * rr

\* sqrt((a.x - b.x)^2 + (a.y - b.y)^2) < r, r in plane units: plain Euclidean distance
Within(a, b, r) ==
  LET dx == Abs(a.x - b.x)
      dy == Abs(a.y - b.y)
      rr == r * PosScale
  IN  /\ dx < rr
      /\ dy < rr
      /\ dx * dx + dy * dy < rr * rr

Point(px, py) == [x |-> px, y |-> py]

KeyCodes == {"ArrowLeft", "ArrowRight", "ArrowUp", "KeyA", "KeyD", "KeyW"}

\* DIFFICULTY_SETTINGS[d]: the easy settings have no maxSpeed
Settings(d) ==
  IF d = "easy"
  THEN [speed |-> EasySpeed, rotationSpeed |-> EasyRotationSpeed,
        speedIncrementPerFood |-> EasySpeedIncrement]
  ELSE [speed |-> HardSpeed, rotationSpeed |-> HardRotationSpeed,
        speedIncrementPerFood |-> HardSpeedIncrement, maxSpeed |-> HardMaxSpeed]

\* ------------------------------------------------------------- snakes
\* body of a new snake: segment i (1-based) lies i * SEGMENT_SPACING behind the head
RECURSIVE InitialBody(_, _, _, _)
InitialBody(sx, sy, ang, i) ==
  IF i > INITIAL_LENGTH THEN <<>>
  ELSE <<Point(sx - RDiv(i * SEGMENT_SPACING * PosScale * Cos(ang), TrigScale),
               sy - RDiv(i * SEGMENT_SPACING * PosScale * Sin(ang), TrigScale))>>
       \o InitialBody(sx, sy, ang, i + 1)

NewSnake(sx, sy, ang) ==
  [head |-> Point(sx, sy), angle |-> ang, targetAngle |-> ang,
   body |-> InitialBody(sx, sy, ang, 1), length |-> INITIAL_LENGTH,
   alive |-> TRUE, slowedUntil |-> 0, shootCooldown |-> 0, canShoot |-> TRUE]

\* useRef initial values of snakeRef and snake2Ref
ConstructedSnake(ang) ==
  [head |-> Point((CANVAS_WIDTH * PosScale) \div 2, (CANVAS_HEIGHT * PosScale) \div 2),
   angle |-> ang,
   targetAngle |-> ang, body |-> <<>>, length |-> INITIAL_LENGTH,
   alive |-> TRUE, slowedUntil |-> 0, shootCooldown |-> 0, canShoot |-> TRUE]

\* the while loops of updateSnake that normalise targetAngle
RECURSIVE NormalizeAngle(_)
NormalizeAngle(a) ==
  IF a > PI THEN NormalizeAngle(a - TWO_PI)
  ELSE IF a < -PI THEN NormalizeAngle(a + TWO_PI)
  ELSE a

\* updateSnake(snake, isPlayer1) under the key map keys and difficulty d
updateSnake(s, isPlayer1, keys, d) ==
  LET rot   == Settings(d).rotationSpeed
      left  == IF isPlayer1 THEN keys["ArrowLeft"] ELSE keys["KeyA"]
      right == IF isPlayer1 THEN keys["ArrowRight"] ELSE keys["KeyD"]
      t1    == IF left THEN s.targetAngle - rot ELSE s.targetAngle
      t2    == IF right THEN t1 + rot ELSE t1
      t3    == NormalizeAngle(t2)
  IN  [s EXCEPT !.targetAngle = t3, !.angle = t3]

\* "if (v < 0) v = dim; if (v > dim) v = 0" of the head (and of a projectile)
WrapHead(v, dim) == IF v < 0 THEN dim ELSE IF v > dim THEN 0 ELSE v

\* a faulty segment wrap that stops a segment at the edge it crosses
WrapSegment_Clamp(v, dim) == IF v < 0 THEN 0 ELSE IF v > dim THEN dim ELSE v

\* "if (v < 0) v += dim; if (v > dim) v -= dim" of a body segment
WrapSegment(v, dim) ==
  LET v1 == IF v < 0 THEN v + dim ELSE v
  IN  IF v1 > dim THEN v1 - dim ELSE v1

\* the wrap-aware delta of moveSnake: the shorter way round on one axis
WrapDelta(d, dim) ==
  IF 2 * Abs(d) > dim THEN (IF d > 0 THEN d - dim ELSE d + dim) ELSE d

\* a faulty body step that takes the delta straight across the plane, never the
\* shorter way round the edge (a delta of more than 400 is measured in whole units)
FollowSegment_NoWrap(target, current) ==
  LET far == Abs(target.x - current.x) + Abs(target.y - current.y) > 400 * PosScale
      dx == IF far THEN (target.x - current.x) \div PosScale ELSE target.x - current.x
      dy == IF far THEN (target.y - current.y) \div PosScale ELSE target.y - current.y
      distance == Isqrt(dx * dx + dy * dy)
      spacing == SEGMENT_SPACING * PosScale
  IN  IF far \/ dx * dx + dy * dy > spacing * spacing
      THEN Point(WrapSegment(target.x - RDiv(dx * spacing, distance), worldWidth),
                 WrapSegment(target.y - RDiv(dy * spacing, distance), worldHeight))
      ELSE current

\* one iteration of the body loop of moveSnake: the new position of a segment
\* whose old position is current and whose leader is at target
FollowSegment(target, current) ==
  LET dx == WrapDelta(target.x - current.x, worldWidth)
      dy == WrapDelta(target.y - current.y, worldHeight)
      distance == Isqrt(dx * dx + dy * dy)
      spacing == SEGMENT_SPACING * PosScale
  IN  IF dx * dx + dy * dy > spacing * spacing
      THEN Point(WrapSegment(target.x - RDiv(dx * spacing, distance), worldWidth),
                 WrapSegment(target.y - RDiv(dy * spacing, distance), worldHeight))
      ELSE current

RECURSIVE MoveBody(_, _, _, _)
\* the body loop of moveSnake: newBody for i = Len(newBody) .. len - 1
MoveBody(head, body, len, newBody) ==
  LET i == Len(newBody)
  IN  IF i >= len THEN newBody
      ELSE LET target  == IF i = 0 THEN head ELSE newBody[i]
               current == IF i < Len(body) THEN body[i + 1]
                          ELSE IF Len(body) > 0 THEN body[Len(body)]
                          ELSE head
           IN  MoveBody(head, body, len, Append(newBody, FollowSegment(target, current)))

\* a faulty moveSnake whose body loop runs over the segments there are, not up to
\* the target length
moveSnake_NoGrowth(s, t, spd) ==
  IF ~s.alive THEN s
  ELSE LET speed == IF t < s.slowedUntil THEN spd * SLOW_FACTOR ELSE spd
           hx == WrapHead(s.head.x + RDiv(Cos(s.angle) * speed, TrigScale), worldWidth)
           hy == WrapHead(s.head.y + RDiv(Sin(s.angle) * speed, TrigScale), worldHeight)
           h  == Point(hx, hy)
       IN  [s EXCEPT !.head = h, !.body = MoveBody(h, s.body, Len(s.body), <<>>)]

\* moveSnake(snake) at time t with the shared speed spd
moveSnake(s, t, spd) ==
  IF ~s.alive THEN s
  ELSE LET speed == IF t < s.slowedUntil THEN spd * SLOW_FACTOR ELSE spd
           hx == WrapHead(s.head.x + RDiv(Cos(s.angle) * speed, TrigScale), worldWidth)
           hy == WrapHead(s.head.y + RDiv(Sin(s.angle) * speed, TrigScale), worldHeight)
           h  == Point(hx, hy)
       IN  [s EXCEPT !.head = h, !.body = MoveBody(h, s.body, s.length, <<>>)]

\* ------------------------------------------------------------- projectiles
\* a faulty shoot that ignores the cooldown
shoot_NoCooldown(s, playerNumber, t, projs) ==
  [snake |-> [s EXCEPT !.shootCooldown = t + SHOOT_COOLDOWN],
   projectiles |->
     Append(projs,
            [x |-> s.head.x, y |-> s.head.y, angle |-> s.angle,
             vx |-> RDiv(Cos(s.angle) * PROJECTILE_SPEED * PosScale, TrigScale),
             vy |-> RDiv(Sin(s.angle) * PROJECTILE_SPEED * PosScale, TrigScale),
             owner |-> playerNumber, createdAt |-> t])]

\* shoot(snake, playerNumber) at time t: the snake and the projectile list afterwards
shoot(s, playerNumber, t, projs) ==
  IF t < s.shootCooldown
  THEN [snake |-> s, projectiles |-> projs]
  ELSE [snake |-> [s EXCEPT !.shootCooldown = t + SHOOT_COOLDOWN],
        projectiles |->
          Append(projs,
                 [x |-> s.head.x, y |-> s.head.y, angle |-> s.angle,
                  vx |-> RDiv(Cos(s.angle) * PROJECTILE_SPEED * PosScale, TrigScale),
                  vy |-> RDiv(Sin(s.angle) * PROJECTILE_SPEED * PosScale, TrigScale),
                  owner |-> playerNumber, createdAt |-> t])]

\* a faulty lifetime test that lets a projectile live twice as long
NotExpired_Late(proj, t) == ~(t - proj.createdAt > 2 * PROJECTILE_LIFETIME)

\* a faulty lifetime test that never drops a projectile
NotExpired_NoLimit(proj, t) == TRUE

\* the filter predicate of updateProjectiles: FALSE for an expired projectile
NotExpired(proj, t) == ~(t - proj.createdAt > PROJECTILE_LIFETIME)

\* the move and wrap of one projectile in updateProjectiles
MoveProjectile(proj) ==
  [proj EXCEPT !.x = WrapHead(proj.x + proj.vx, worldWidth),
               !.y = WrapHead(proj.y + proj.vy, worldHeight)]

RECURSIVE updateProjectiles(_, _)
\* updateProjectiles() at time t
updateProjectiles(projs, t) ==
  IF projs = <<>> THEN <<>>
  ELSE IF NotExpired(Head(projs), t)
       THEN <<MoveProjectile(Head(projs))>> \o updateProjectiles(Tail(projs), t)
       ELSE updateProjectiles(Tail(projs), t)

\* a faulty hit test that leaves out the owner of the projectile
HitsPlayer1_AnyOwner(proj, s1) ==
  /\ s1.alive
  /\ Within(proj, s1.head, PROJECTILE_HIT_RADIUS)

\* checkProjectileCollisions: does proj strike player 1 (head of s1)?
HitsPlayer1(proj, s1) ==
  /\ proj.owner = 2
  /\ s1.alive
  /\ Within(proj, s1.head, PROJECTILE_HIT_RADIUS)

\* checkProjectileCollisions: does proj strike player 2 (head of s2)?
HitsPlayer2(proj, s2, mode) ==
  /\ proj.owner = 1
  /\ s2.alive
  /\ mode = "multiplayer"
  /\ Within(proj, s2.head, PROJECTILE_HIT_RADIUS)

RECURSIVE KeepProjectiles(_, _, _, _)
\* the projectiles the filter of checkProjectileCollisions keeps
KeepProjectiles(projs, s1, s2, mode) ==
  IF projs = <<>> THEN <<>>
  ELSE IF HitsPlayer1(Head(projs), s1) \/ HitsPlayer2(Head(projs), s2, mode)
       THEN KeepProjectiles(Tail(projs), s1, s2, mode)
       ELSE <<Head(projs)>> \o KeepProjectiles(Tail(projs), s1, s2, mode)

\* a faulty checkProjectileCollisions that adds the slow to an expiry still to come
checkProjectileCollisions_Stacking(projs, s1, s2, mode, t) ==
  LET hit1 == \E i \in 1..Len(projs) : HitsPlayer1(projs[i], s1)
      hit2 == \E i \in 1..Len(projs) :
                 ~HitsPlayer1(projs[i], s1) /\ HitsPlayer2(projs[i], s2, mode)
      from(s) == IF s.slowedUntil > t THEN s.slowedUntil ELSE t
  IN  [projectiles |-> KeepProjectiles(projs, s1, s2, mode),
       snake  |-> IF hit1 THEN [s1 EXCEPT !.slowedUntil = from(s1) + SLOW_DURATION]
                  ELSE s1,
       snake2 |-> IF hit2 THEN [s2 EXCEPT !.slowedUntil = from(s2) + SLOW_DURATION]
                  ELSE s2]

\* checkProjectileCollisions() at time t
checkProjectileCollisions(projs, s1, s2, mode, t) ==
  LET hit1 == \E i \in 1..Len(projs) : HitsPlayer1(projs[i], s1)
      hit2 == \E i \in 1..Len(projs) :
                 ~HitsPlayer1(projs[i], s1) /\ HitsPlayer2(projs[i], s2, mode)
  IN  [projectiles |-> KeepProjectiles(projs, s1, s2, mode),
       snake  |-> IF hit1 THEN [s1 EXCEPT !.slowedUntil = t + SLOW_DURATION] ELSE s1,
       snake2 |-> IF hit2 THEN [s2 EXCEPT !.slowedUntil = t + SLOW_DURATION] ELSE s2]

\* ------------------------------------------------------------- food
\* the snakes generateFood checks
SnakesInPlay(s1, s2, mode) == IF mode = "multiplayer" THEN <<s1, s2>> ELSE <<s1>>

\* a faulty acceptance test that leaves out the body segments
FoodClearOf_HeadOnly(f, s) == ~Within(f, s.head, FOOD_HEAD_EXCLUSION)

\* the acceptance test of generateFood for one snake: head, then body segments
FoodClearOf(f, s) ==
  /\ ~Within(f, s.head, FOOD_HEAD_EXCLUSION)
  /\ \A i \in 1..Len(s.body) : ~Within(f, s.body[i], FOOD_BODY_EXCLUSION)

\* validPosition at the end of one iteration of the while loop of generateFood
ValidPosition(f, s1, s2, mode) ==
  LET snakes == SnakesInPlay(s1, s2, mode)
  IN  \A k \in 1..Len(snakes) : FoodClearOf(f, snakes[k])

\* newFood of one iteration of generateFood from the two values r of Math.random():
\* Math.random() * (worldWidth - 40) + 20, Math.random() * (worldHeight - 40) + 20
NewFood(r) ==
  Point(RDiv(r[1] * (worldWidth - FOOD_RANGE_CUT * PosScale), RandScale)
          + FOOD_MARGIN * PosScale,
        RDiv(r[2] * (worldHeight - FOOD_RANGE_CUT * PosScale), RandScale)
          + FOOD_MARGIN * PosScale)

RECURSIVE DrawFood(_, _, _, _, _, _)
\* the while loop of generateFood.  Math.random() yields the pairs of stream in
\* turn (cyclically); n pairs have been drawn so far.  found is FALSE when no pair
\* of the stream is accepted: the loop does not end on these draws.
DrawFood(stream, n, tries, s1, s2, mode) ==
  LET newFood == NewFood(stream[(n % Len(stream)) + 1])
  IN  IF tries >= Len(stream)
      THEN [found |-> FALSE, food |-> newFood, drawn |-> n]
      ELSE IF ValidPosition(newFood, s1, s2, mode)
           THEN [found |-> TRUE, food |-> newFood, drawn |-> n + 1]
           ELSE DrawFood(stream, n + 1, tries + 1, s1, s2, mode)

\* generateFood(): the new foodRef.current and the number of draws afterwards
generateFood(s1, s2, mode, stream, n) == DrawFood(stream, n % Len(stream), 0, s1, s2, mode)

\* ------------------------------------------------------------- collisions
\* The operators of checkCollisions work on a record w of what it reads and writes:
\* s1, s2 (the snakes), food, speed, score, score2, over (gameOver), winner,
\* reason (gameOverReason), pickups, drawn (draws of Math.random() so far) and
\* stuck (a generateFood call that does not return).

\* a faulty speed update that leaves out the cap
SpeedAfterPickup_NoCap(spd, d) ==
  IF d = "hard" THEN spd + HardSpeedIncrement ELSE spd

\* the speed after a pickup: the "if (difficulty === 'hard')" block
SpeedAfterPickup(spd, d) ==
  IF d = "hard"
  THEN LET newSpeed == spd + HardSpeedIncrement
       IN  IF newSpeed < HardMaxSpeed THEN newSpeed ELSE HardMaxSpeed
  ELSE spd

\* "distanceToFood < 15"
ReachesFood(s, f) == Within(s.head, f, FOOD_PICKUP_RADIUS)

\* the self-collision loop: for (let i = 5; i < body.length; i++) distance < 6
HitsSelf(s) ==
  \E i \in (SELF_HIT_SKIP + 1)..Len(s.body) : Within(s.head, s.body[i], SELF_HIT_RADIUS)

\* "distanceToP2Head < 10"
HeadOn(a, b) == Within(a.head, b.head, HEAD_HIT_RADIUS)

\* the body loop: the head of a within 6 of a segment of b
HitsBodyOf(a, b) ==
  \E i \in 1..Len(b.body) : Within(a.head, b.body[i], BODY_HIT_RADIUS)

\* the effect of a generateFood() call inside checkCollisions
PlaceFood(w, mode, stream) ==
  LET g == generateFood(w.s1, w.s2, mode, stream, w.drawn)
  IN  [w EXCEPT !.food = g.food, !.drawn = g.drawn, !.stuck = @ \/ ~g.found]

\* player 1's food pickup (lines 418-432)
Pickup1(w, mode, d, stream) ==
  PlaceFood([w EXCEPT !.score = @ + SCORE_PER_FOOD,
                      !.s1 = [@ EXCEPT !.length = @ + GROWTH_PER_FOOD],
                      !.speed = SpeedAfterPickup(@, d),
                      !.pickups = @ + 1],
            mode, stream)

\* player 2's food pickup (lines 499-513)
Pickup2(w, mode, d, stream) ==
  PlaceFood([w EXCEPT !.score2 = @ + SCORE_PER_FOOD,
                      !.s2 = [@ EXCEPT !.length = @ + GROWTH_PER_FOOD],
                      !.speed = SpeedAfterPickup(@, d),
                      !.pickups = @ + 1],
            mode, stream)

\* a faulty self-collision of player 1 that names player 1 the winner in duo mode
SelfCollision1_WrongWinner(w, mode) ==
  IF HitsSelf(w.s1)
  THEN IF mode = "single"
       THEN [w EXCEPT !.s1 = [@ EXCEPT !.alive = FALSE], !.over = TRUE,
                      !.reason = "You hit yourself!"]
       ELSE [w EXCEPT !.s1 = [@ EXCEPT !.alive = FALSE], !.over = TRUE,
                      !.winner = "Player 1 (Green)",
                      !.reason = "Player 1 (Green) hit themselves!"]
  ELSE w

\* a faulty self-collision of player 1 that marks the snake dead and does not end
\* the match
SelfCollision1_NoGameOver(w, mode) ==
  IF HitsSelf(w.s1) THEN [w EXCEPT !.s1 = [@ EXCEPT !.alive = FALSE]] ELSE w

\* player 1's self-collision (lines 434-454)
SelfCollision1(w, mode) ==
  IF HitsSelf(w.s1)
  THEN IF mode = "single"
       THEN [w EXCEPT !.s1 = [@ EXCEPT !.alive = FALSE], !.over = TRUE,
                      !.reason = "You hit yourself!"]
       ELSE [w EXCEPT !.s1 = [@ EXCEPT !.alive = FALSE], !.over = TRUE,
                      !.winner = "Player 2 (Blue)",
                      !.reason = "Player 1 (Green) hit themselves!"]
  ELSE w

\* a faulty inter-snake check of player 1 that leaves out the head-on test
InterSnake1_NoHeadOn(w, mode) ==
  IF mode = "multiplayer" /\ w.s2.alive /\ HitsBodyOf(w.s1, w.s2)
  THEN [w EXCEPT !.s1 = [@ EXCEPT !.alive = FALSE], !.over = TRUE,
                 !.winner = "Player 2 (Blue)",
                 !.reason = "Player 1 (Green) hit Player 2!"]
  ELSE w

\* player 1 against player 2 (lines 456-489)
InterSnake1(w, mode) ==
  IF mode = "multiplayer" /\ w.s2.alive
  THEN IF HeadOn(w.s1, w.s2)
       THEN [w EXCEPT !.s1 = [@ EXCEPT !.alive = FALSE],
                      !.s2 = [@ EXCEPT !.alive = FALSE],
                      !.over = TRUE, !.winner = "Tie",
                      !.reason = "Head-on collision!"]
       ELSE IF HitsBodyOf(w.s1, w.s2)
            THEN [w EXCEPT !.s1 = [@ EXCEPT !.alive = FALSE], !.over = TRUE,
                           !.winner = "Player 2 (Blue)",
                           !.reason = "Player 1 (Green) hit Player 2!"]
            ELSE w
  ELSE w

\* player 2's self-collision (lines 515-530)
SelfCollision2(w) ==
  IF HitsSelf(w.s2)
  THEN [w EXCEPT !.s2 = [@ EXCEPT !.alive = FALSE], !.over = TRUE,
                 !.winner = "Player 1 (Green)",
                 !.reason = "Player 2 (Blue) hit themselves!"]
  ELSE w

\* player 2 against player 1's body (lines 532-549)
InterSnake2(w) ==
  IF w.s1.alive /\ HitsBodyOf(w.s2, w.s1)
  THEN [w EXCEPT !.s2 = [@ EXCEPT !.alive = FALSE], !.over = TRUE,
                 !.winner = "Player 1 (Green)",
                 !.reason = "Player 2 (Blue) hit Player 1!"]
  ELSE w

\* the block "if (snake1.alive) { ... }" (lines 411-490)
Player1Block(w, oldFood, mode, d, stream) ==
  IF w.s1.alive
  THEN InterSnake1(
         SelfCollision1(
           IF ReachesFood(w.s1, oldFood) THEN Pickup1(w, mode, d, stream) ELSE w,
           mode),
         mode)
  ELSE w

\* the block "if (gameMode === 'multiplayer' && snake2.alive) { ... }" (lines
\* 492-550).  Its food test reads oldFood, the "const food = foodRef.current" of
\* the top of checkCollisions.
Player2Block(w, oldFood, mode, d, stream) ==
  IF mode = "multiplayer" /\ w.s2.alive
  THEN InterSnake2(
         SelfCollision2(
           IF ReachesFood(w.s2, oldFood) THEN Pickup2(w, mode, d, stream) ELSE w))
  ELSE w

\* checkCollisions()
checkCollisions(w, mode, d, stream) ==
  Player2Block(Player1Block(w, w.food, mode, d, stream), w.food, mode, d, stream)

\* ------------------------------------------------------------- bounds
MaxTicks == 120
MaxStaleTicks == 1
MaxMatches == 2
\* ticks of a new match that run while a setTimeout(updateCanvasSize, 100) is pending
MaxEarlyTicks == 1

\* the events that arrive: <<number of ticks run when the event arrives, code,
\* pressed>> for a key event, and <<number of ticks, event, TRUE>> for a click on
\* the fullscreen button ("toggleFullscreen"), the browser carrying out the call
\* of requestFullscreen() or exitFullscreen() the click made ("fullscreenElement"),
\* the Esc key in fullscreen ("Escape"), a resize event ("resize") and a
\* fullscreenchange event ("fullscreenchange")
KeySchedules ==
  { <<>>,
    << <<0, "ArrowUp", TRUE>>, <<0, "KeyW", TRUE>>,
       <<19, "ArrowLeft", TRUE>>, <<19, "KeyA", TRUE>> >>,
    << <<0, "KeyA", TRUE>> >>,
    << <<4, "ArrowLeft", TRUE>> >>,
    << <<0, "ArrowUp", TRUE>>, <<0, "KeyD", TRUE>> >>,
    << <<0, "KeyW", TRUE>>, <<30, "KeyW", FALSE>> >>,
    << <<0, "ArrowLeft", TRUE>> >>,
    << <<6, "ArrowLeft", TRUE>>, <<6, "KeyA", TRUE>>,
       <<15, "ArrowLeft", FALSE>>, <<15, "KeyA", FALSE>> >>,
    << <<11, "ArrowLeft", TRUE>> >>,
    << <<0, "ArrowLeft", TRUE>>, <<0, "KeyW", TRUE>>, <<9, "ArrowLeft", FALSE>> >> }

\* schedules with screen events: the browser dispatches resize, then
\* fullscreenchange, after it has set or unset document.fullscreenElement, and
\* ticks of the game loop may run in between
ScreenSchedules ==
  { << <<3, "resize", TRUE>>,
       <<5, "toggleFullscreen", TRUE>>, <<5, "fullscreenElement", TRUE>>,
       <<5, "resize", TRUE>>, <<6, "fullscreenchange", TRUE>>,
       <<8, "resize", TRUE>>,
       <<20, "toggleFullscreen", TRUE>>, <<20, "fullscreenElement", TRUE>>,
       <<20, "resize", TRUE>>, <<21, "fullscreenchange", TRUE>> >>,
    << <<0, "toggleFullscreen", TRUE>>, <<0, "fullscreenElement", TRUE>>,
       <<0, "resize", TRUE>>, <<0, "fullscreenchange", TRUE>>,
       <<30, "Escape", TRUE>>, <<30, "resize", TRUE>>,
       <<30, "fullscreenchange", TRUE>> >>,
    << <<0, "ArrowUp", TRUE>>,
       <<0, "toggleFullscreen", TRUE>>, <<0, "fullscreenElement", TRUE>>,
       <<0, "resize", TRUE>>, <<0, "fullscreenchange", TRUE>>,
       <<10, "toggleFullscreen", TRUE>>, <<10, "fullscreenElement", TRUE>>,
       <<10, "resize", TRUE>>, <<10, "fullscreenchange", TRUE>> >> }

\* the values Math.random() yields in generateFood, two for each iteration of its
\* loop, in 1/10000
RandomStreams ==
  { << <<3215, 5000>>, <<5000, 5266>>, <<1429, 1429>> >>,
    << <<1428, 5000>>, <<5000, 5266>>, <<1429, 1429>> >>,
    << <<1429, 1429>>, <<8571, 8571>> >>,
    << <<5000, 5179>>, <<1429, 1429>>, <<8571, 8571>> >> }

\* the values Math.random() yields in the behaviours with screen events
ScreenStreams ==
  { << <<3215, 5000>>, <<5000, 8571>> >> }

\* fullscreen entered at the start and left by the button after 20 ticks, with no
\* key held
GrowthSchedules ==
  { << <<0, "toggleFullscreen", TRUE>>, <<0, "fullscreenElement", TRUE>>,
       <<0, "resize", TRUE>>, <<0, "fullscreenchange", TRUE>>,
       <<20, "toggleFullscreen", TRUE>>, <<20, "fullscreenElement", TRUE>>,
       <<20, "resize", TRUE>>, <<20, "fullscreenchange", TRUE>> >> }

\* the values Math.random() yields in those behaviours: in a duo match started in
\* fullscreen the first food lies on the way of snake 2, which takes it before
\* fullscreen is left
GrowthStreams ==
  { << <<6703, 5000>>, <<5000, 1000>> >> }

\* ------------------------------------------------------------- Init
NoKeys == [k \in KeyCodes |-> FALSE]

\* a value of canvasSize
Size(w, h) == [width |-> w, height |-> h]

\* the gameLoop closure of an interval: registered or not, and the gameOver,
\* gameStarted and canvasSize of the render the effect ran in
Interval(on, over, started, cs) ==
  [on |-> on, gameOver |-> over, gameStarted |-> started, canvasSize |-> cs]

\* the closures of handleFullscreenChange and handleResize that the effect of a
\* render registers: the isFullscreen, gameStarted, canvasSize and gameMode of
\* that render
Listeners(fs, started, cs, mode) ==
  [isFullscreen |-> fs, gameStarted |-> started, canvasSize |-> cs, gameMode |-> mode]

\* a pending setTimeout(updateCanvasSize, 100): the time it is due at and the
\* canvasSize and gameMode of the closure that set it
Timer(due, cs, mode) == [due |-> due, canvasSize |-> cs, gameMode |-> mode]

\* the document outside fullscreen, with no request and no event pending
WindowedDocument == [fullscreenElement |-> FALSE, request |-> "none", fullscreenchange |-> 0]

Init ==
  /\ gameStarted = FALSE
  /\ gameOver = FALSE
  /\ gameOverReason = ""
  /\ winner = ""
  /\ difficulty = "easy"
  /\ gameMode = "single"
  /\ score = 0
  /\ score2 = 0
  /\ currentSpeed = EasySpeed
  /\ snake = ConstructedSnake(0)
  /\ snake2 = ConstructedSnake(PI)
  /\ food = Point(0, 0)
  /\ projectiles = <<>>
  /\ keysPressed = NoKeys
  /\ interval = Interval(FALSE, FALSE, FALSE, Size(CANVAS_WIDTH, CANVAS_HEIGHT))
  /\ canvasSize = Size(CANVAS_WIDTH, CANVAS_HEIGHT)
  /\ isFullscreen = FALSE
  /\ listeners = Listeners(FALSE, FALSE, Size(CANVAS_WIDTH, CANVAS_HEIGHT), "single")
  /\ resizeTimers = <<>>
  /\ document = WindowedDocument
  /\ loopCanvasSize = Size(CANVAS_WIDTH, CANVAS_HEIGHT)
  /\ now = 0
  /\ ticks = 0
  /\ staleTicks = 0
  /\ pickups = 0
  /\ matches = 0
  /\ drawn = 0
  /\ \/ schedule \in KeySchedules /\ randoms \in RandomStreams
     \/ schedule \in ScreenSchedules /\ randoms \in ScreenStreams
     \/ schedule \in GrowthSchedules /\ randoms \in GrowthStreams

\* ------------------------------------------------------------- actions
\* onClick={() => setGameMode(m)}: the selector is rendered while !gameStarted.
\* The effects of the render that shows it have run by the time of the click.
setGameMode(m) ==
  /\ ~gameStarted /\ ~interval.on
  /\ gameMode # m
  /\ gameMode' = m
  /\ loopCanvasSize' = canvasSize
  /\ UNCHANGED <<gameStarted, gameOver, gameOverReason, winner, difficulty, score,
                 score2, currentSpeed, snake, snake2, food, projectiles, keysPressed,
                 interval, now, ticks, staleTicks, pickups, matches, drawn, schedule,
                 randoms, canvasSize, isFullscreen, listeners, resizeTimers, document>>

\* onClick={() => setDifficulty(d)}: the selector is rendered while !gameStarted.
\* The effects of the render that shows it have run by the time of the click.
setDifficulty(d) ==
  /\ ~gameStarted /\ ~interval.on
  /\ difficulty # d
  /\ difficulty' = d
  /\ UNCHANGED <<gameStarted, gameOver, gameOverReason, winner, gameMode, score,
                 score2, currentSpeed, snake, snake2, food, projectiles, keysPressed,
                 interval, now, ticks, staleTicks, pickups, matches, drawn, schedule,
                 randoms, screen>>

\* a faulty initializeSnake that sets snake 1 up and leaves snake 2 as it was
InitialSnakes_KeepSnake2(mode, oldSnake2) ==
  [s1 |-> NewSnake(worldWidth \div 4, worldHeight \div 2, 0), s2 |-> oldSnake2]

\* initializeSnake(): the snakes it builds
InitialSnakes(mode, oldSnake2) ==
  [s1 |-> NewSnake(worldWidth \div 4, worldHeight \div 2, 0),
   s2 |-> IF mode = "multiplayer"
          THEN NewSnake((3 * worldWidth) \div 4, worldHeight \div 2, PI)
          ELSE oldSnake2]

\* initializeSnake(): everything it assigns
initializeSnake ==
  \E ss \in {InitialSnakes(gameMode, snake2)} :
  \E g \in {generateFood(ss.s1, ss.s2, gameMode, randoms, drawn)} :
    /\ g.found
    /\ snake' = ss.s1
    /\ snake2' = ss.s2
    /\ projectiles' = <<>>
    /\ gameOver' = FALSE
    /\ score' = 0
    /\ score2' = 0
    /\ gameOverReason' = ""
    /\ winner' = ""
    /\ currentSpeed' = Settings(difficulty).speed
    /\ food' = g.food
    /\ drawn' = g.drawn
    /\ pickups' = 0
    /\ staleTicks' = 0

\* startGame: the Start Game button of the start overlay (!gameStarted && !gameOver)
startGame ==
  /\ ~gameStarted /\ ~gameOver
  /\ matches < MaxMatches
  /\ initializeSnake
  /\ gameStarted' = TRUE
  /\ listeners' = Listeners(isFullscreen, TRUE, canvasSize, gameMode)
  /\ loopCanvasSize' = canvasSize
  /\ matches' = matches + 1
  /\ UNCHANGED <<difficulty, gameMode, keysPressed, interval, now, ticks, schedule,
                 randoms, canvasSize, isFullscreen, resizeTimers, document>>

\* restartGame: the Play Again button of the game-over overlay (gameOver), once the
\* render that shows it has cleared the old interval
restartGame ==
  /\ gameOver /\ ~interval.on
  /\ matches < MaxMatches
  /\ initializeSnake
  /\ gameStarted' = TRUE
  /\ listeners' = IF gameStarted THEN listeners
                  ELSE Listeners(isFullscreen, TRUE, canvasSize, gameMode)
  /\ loopCanvasSize' = canvasSize
  /\ matches' = matches + 1
  /\ UNCHANGED <<difficulty, gameMode, keysPressed, interval, now, ticks, schedule,
                 randoms, canvasSize, isFullscreen, resizeTimers, document>>

\* the game-loop effect (deps gameStarted, gameOver, gameMode) after a render in
\* which they changed: the cleanup clears the old interval, and a new one is set
\* when gameStarted && !gameOver; its gameLoop closure keeps that render's values,
\* whatever canvasSize has become by the time the effect runs
loopEffect ==
  /\ interval.on # (gameStarted /\ ~gameOver)
  /\ interval' = Interval(gameStarted /\ ~gameOver, gameOver, gameStarted,
                          loopCanvasSize)
  /\ UNCHANGED <<gameStarted, gameOver, gameOverReason, winner, difficulty, gameMode,
                 score, score2, currentSpeed, snake, snake2, food, projectiles,
                 keysPressed, now, ticks, staleTicks, pickups, matches, drawn,
                 schedule, randoms, screen>>

\* handleKeyDown(e) / handleKeyUp(e) for e.code = code: the next event of the schedule
handleKey(code, pressed) ==
  /\ schedule # <<>>
  /\ Head(schedule) = <<ticks, code, pressed>>
  /\ keysPressed' = [keysPressed EXCEPT ![code] = pressed]
  /\ schedule' = Tail(schedule)
  /\ UNCHANGED <<gameStarted, gameOver, gameOverReason, winner, difficulty, gameMode,
                 score, score2, currentSpeed, snake, snake2, food, projectiles,
                 interval, now, ticks, staleTicks, pickups, matches, drawn, randoms, screen>>

handleKeyDown(code) == handleKey(code, TRUE)

handleKeyUp(code) == handleKey(code, FALSE)

\* the shooting block of gameLoop (lines 559-570) at time t
Shooting(s1, s2, projs, keys, mode, t) ==
  LET a == IF mode = "multiplayer" /\ keys["ArrowUp"] /\ s1.alive
           THEN shoot(s1, 1, t, projs)
           ELSE [snake |-> s1, projectiles |-> projs]
      b == IF mode = "multiplayer" /\ keys["KeyW"] /\ s2.alive
           THEN shoot(s2, 2, t, a.projectiles)
           ELSE [snake |-> s2, projectiles |-> a.projectiles]
  IN  [snake |-> a.snake, snake2 |-> b.snake, projectiles |-> b.projectiles]

\* gameLoop() from updateSnake to checkCollisions, on the outcome pc of
\* checkProjectileCollisions: the record checkCollisions leaves
MoveAndCollide(pc, keys, mode, d, t, w) ==
  checkCollisions(
    [w EXCEPT !.s1 = moveSnake(updateSnake(pc.snake, TRUE, keys, d), t, w.speed),
              !.s2 = IF mode = "multiplayer"
                     THEN moveSnake(updateSnake(pc.snake2, FALSE, keys, d), t, w.speed)
                     ELSE pc.snake2,
              !.projectiles = pc.projectiles],
    mode, d, randoms)

\* the body of gameLoop() at time t, after its guard: the record w of what it leaves
GameLoopBody(t) ==
  LET w == [s1 |-> snake, s2 |-> snake2, projectiles |-> projectiles, food |-> food,
            speed |-> currentSpeed, score |-> score, score2 |-> score2,
            over |-> gameOver, winner |-> winner, reason |-> gameOverReason,
            pickups |-> pickups, drawn |-> drawn, stuck |-> FALSE]
      sh == Shooting(snake, snake2, projectiles, keysPressed, gameMode, t)
  IN  MoveAndCollide(
        checkProjectileCollisions(updateProjectiles(sh.projectiles, t),
                                  sh.snake, sh.snake2, gameMode, t),
        keysPressed, gameMode, difficulty, t, w)

\* one interval tick: gameLoop() as the interval's closure runs it, in a run of at
\* most maxTicks ticks.  The guard
\* "if (gameOver || !gameStarted) return" reads the values the closure was made
\* with.  Every Date.now() of one tick returns the same value.
gameLoopTick(maxTicks) ==
  /\ interval.on
  /\ ~(interval.gameOver \/ ~interval.gameStarted)
  /\ ticks < maxTicks
  /\ gameOver => staleTicks < MaxStaleTicks
  /\ IF schedule = <<>> THEN TRUE ELSE Head(schedule)[1] > ticks
  /\ resizeTimers # <<>> =>
       /\ now + TICK_MS < Head(resizeTimers).due
       /\ now + TICK_MS <= Head(resizeTimers).due - 100 + MaxEarlyTicks * TICK_MS
  /\ \E w \in {GameLoopBody(now + TICK_MS)} :
       /\ ~w.stuck
       /\ snake' = w.s1
       /\ snake2' = w.s2
       /\ food' = w.food
       /\ projectiles' = w.projectiles
       /\ currentSpeed' = w.speed
       /\ score' = w.score
       /\ score2' = w.score2
       /\ gameOver' = w.over
       /\ winner' = w.winner
       /\ gameOverReason' = w.reason
       /\ pickups' = w.pickups
       /\ drawn' = w.drawn
       /\ loopCanvasSize' = IF w.over # gameOver THEN canvasSize ELSE loopCanvasSize
  /\ now' = now + TICK_MS
  /\ ticks' = ticks + 1
  /\ staleTicks' = IF gameOver THEN staleTicks + 1 ELSE staleTicks
  /\ UNCHANGED <<gameStarted, difficulty, gameMode, keysPressed, interval, matches,
                 schedule, randoms, canvasSize, isFullscreen, listeners, resizeTimers,
                 document>>

\* the interval ticks of the runs of at most MaxTicks ticks
gameLoop == gameLoopTick(MaxTicks)

\* ------------------------------------------------------------- fullscreen, resize
\* window.innerWidth and window.innerHeight while the document is in fullscreen
WindowSizes == { <<640, 480>> }

\* "p.x * scaleX, p.y * scaleY" for scaleX = numX / denX and scaleY = numY / denY
ScalePoint(p, numX, denX, numY, denY) ==
  Point(RDiv(p.x * numX, denX), RDiv(p.y * numY, denY))

RECURSIVE ScalePoints(_, _, _, _, _)
\* "body.map(segment => ({ x: segment.x * scaleX, y: segment.y * scaleY }))"
ScalePoints(ps, numX, denX, numY, denY) ==
  IF ps = <<>> THEN <<>>
  ELSE <<ScalePoint(Head(ps), numX, denX, numY, denY)>>
       \o ScalePoints(Tail(ps), numX, denX, numY, denY)

\* head and body of a snake multiplied by scaleX and scaleY
ScaleSnake(s, numX, denX, numY, denY) ==
  [s EXCEPT !.head = ScalePoint(@, numX, denX, numY, denY),
            !.body = ScalePoints(@, numX, denX, numY, denY)]

\* updateCanvasSize() as the closure cl runs it, with document.fullscreenElement
\* set (fs) or not and the window of size win: the canvasSize it sets and the
\* snakes and the food it leaves.  In fullscreen the scale is the new size over
\* CANVAS_WIDTH x CANVAS_HEIGHT; otherwise it is CANVAS_WIDTH x CANVAS_HEIGHT over
\* the canvasSize of the closure.  Snake 2 is scaled when the closure's gameMode is
\* 'multiplayer'.
updateCanvasSize(fs, win, cl) ==
  LET numX == IF fs THEN win[1] - 20 ELSE CANVAS_WIDTH
      denX == IF fs THEN CANVAS_WIDTH ELSE cl.canvasSize.width
      numY == IF fs THEN win[2] - 60 ELSE CANVAS_HEIGHT
      denY == IF fs THEN CANVAS_HEIGHT ELSE cl.canvasSize.height
  IN  [canvasSize |-> Size(numX, numY),
       snake  |-> ScaleSnake(snake, numX, denX, numY, denY),
       snake2 |-> IF cl.gameMode = "multiplayer"
                  THEN ScaleSnake(snake2, numX, denX, numY, denY)
                  ELSE snake2,
       food   |-> ScalePoint(food, numX, denX, numY, denY)]

\* the assignments of an updateCanvasSize() call whose outcome is u
CanvasOutcome(u) ==
  /\ canvasSize' = u.canvasSize
  /\ snake' = u.snake
  /\ snake2' = u.snake2
  /\ food' = u.food

\* the next event of the schedule is the screen event code, and the effects of the
\* latest render have run
ScreenEvent(code) ==
  /\ schedule # <<>>
  /\ Head(schedule) = <<ticks, code, TRUE>>
  /\ interval.on = (gameStarted /\ ~gameOver)

\* toggleFullscreen: the click on the fullscreen button.  requestFullscreen() when
\* !document.fullscreenElement, exitFullscreen() otherwise; both return before the
\* browser has changed anything.
toggleFullscreen ==
  /\ ScreenEvent("toggleFullscreen")
  /\ document' = [document EXCEPT
                    !.request = IF ~document.fullscreenElement THEN "enter" ELSE "exit"]
  /\ schedule' = Tail(schedule)
  /\ UNCHANGED <<gameStarted, gameOver, gameOverReason, winner, difficulty, gameMode,
                 score, score2, currentSpeed, snake, snake2, food, projectiles,
                 keysPressed, interval, now, ticks, staleTicks, pickups, matches, drawn,
                 randoms, canvasSize, isFullscreen, listeners, resizeTimers,
                 loopCanvasSize>>

\* the browser carries out the requestFullscreen() or exitFullscreen() call of
\* toggleFullscreen: it sets or unsets document.fullscreenElement and, when that
\* changes it, has a fullscreenchange event to dispatch
fullscreenSwitch ==
  /\ ScreenEvent("fullscreenElement")
  /\ document.request # "none"
  /\ document' = [fullscreenElement |-> (document.request = "enter"),
                  request |-> "none",
                  fullscreenchange |->
                    IF document.fullscreenElement # (document.request = "enter")
                    THEN document.fullscreenchange + 1
                    ELSE document.fullscreenchange]
  /\ schedule' = Tail(schedule)
  /\ UNCHANGED <<gameStarted, gameOver, gameOverReason, winner, difficulty, gameMode,
                 score, score2, currentSpeed, snake, snake2, food, projectiles,
                 keysPressed, interval, now, ticks, staleTicks, pickups, matches, drawn,
                 randoms, canvasSize, isFullscreen, listeners, resizeTimers,
                 loopCanvasSize>>

\* the Esc key in fullscreen: the browser unsets document.fullscreenElement and has
\* a fullscreenchange event to dispatch
exitFullscreen ==
  /\ ScreenEvent("Escape")
  /\ document.fullscreenElement
  /\ document' = [document EXCEPT !.fullscreenElement = FALSE,
                                  !.fullscreenchange = @ + 1]
  /\ schedule' = Tail(schedule)
  /\ UNCHANGED <<gameStarted, gameOver, gameOverReason, winner, difficulty, gameMode,
                 score, score2, currentSpeed, snake, snake2, food, projectiles,
                 keysPressed, interval, now, ticks, staleTicks, pickups, matches, drawn,
                 randoms, canvasSize, isFullscreen, listeners, resizeTimers,
                 loopCanvasSize>>

\* handleFullscreenChange(), on a fullscreenchange event: wasFullscreen and
\* gameStarted are those of its closure, nowFullscreen is
\* !!document.fullscreenElement.  Leaving fullscreen during a match ends the match
\* and defers updateCanvasSize() by 100 ms; otherwise updateCanvasSize() runs at
\* once.  The render that follows registers new closures when isFullscreen or
\* gameStarted has changed.
handleFullscreenChange ==
  /\ ScreenEvent("fullscreenchange")
  /\ document.fullscreenchange > 0
  /\ document' = [document EXCEPT !.fullscreenchange = @ - 1]
  /\ isFullscreen' = document.fullscreenElement
  /\ IF listeners.isFullscreen /\ ~document.fullscreenElement /\ listeners.gameStarted
     THEN /\ gameOver' = TRUE
          /\ gameOverReason' = "Exited fullscreen - Screen size changed!"
          /\ gameStarted' = FALSE
          /\ resizeTimers' = Append(resizeTimers,
                                    Timer(now + 100, listeners.canvasSize,
                                          listeners.gameMode))
          /\ listeners' = Listeners(document.fullscreenElement, FALSE, canvasSize,
                                    gameMode)
          /\ loopCanvasSize' = canvasSize
          /\ UNCHANGED <<canvasSize, snake, snake2, food>>
     ELSE /\ \E win \in WindowSizes :
               \E u \in {updateCanvasSize(document.fullscreenElement, win, listeners)} :
                 /\ CanvasOutcome(u)
                 /\ listeners' = IF document.fullscreenElement # isFullscreen
                                 THEN Listeners(document.fullscreenElement, gameStarted,
                                                u.canvasSize, gameMode)
                                 ELSE listeners
          /\ UNCHANGED <<gameOver, gameOverReason, gameStarted, resizeTimers,
                         loopCanvasSize>>
  /\ schedule' = Tail(schedule)
  /\ UNCHANGED <<winner, difficulty, gameMode, score, score2, currentSpeed,
                 projectiles, keysPressed, interval, now, ticks, staleTicks, pickups,
                 matches, drawn, randoms>>

\* handleResize(), on a resize event: updateCanvasSize() if
\* document.fullscreenElement is set
handleResize ==
  /\ ScreenEvent("resize")
  /\ IF document.fullscreenElement
     THEN \E win \in WindowSizes :
            \E u \in {updateCanvasSize(TRUE, win, listeners)} : CanvasOutcome(u)
     ELSE UNCHANGED <<canvasSize, snake, snake2, food>>
  /\ schedule' = Tail(schedule)
  /\ UNCHANGED <<gameStarted, gameOver, gameOverReason, winner, difficulty, gameMode,
                 score, score2, currentSpeed, projectiles, keysPressed, interval, now,
                 ticks, staleTicks, pickups, matches, drawn, randoms, isFullscreen,
                 listeners, resizeTimers, document, loopCanvasSize>>

\* the callback of the oldest pending setTimeout of handleFullscreenChange:
\* updateCanvasSize() of the closure that set the timer
resizeTimeout ==
  /\ resizeTimers # <<>>
  /\ \E win \in WindowSizes :
       \E u \in {updateCanvasSize(document.fullscreenElement, win, Head(resizeTimers))} :
         CanvasOutcome(u)
  /\ resizeTimers' = Tail(resizeTimers)
  /\ UNCHANGED <<gameStarted, gameOver, gameOverReason, winner, difficulty, gameMode,
                 score, score2, currentSpeed, projectiles, keysPressed, interval, now,
                 ticks, staleTicks, pickups, matches, drawn, schedule, randoms,
                 isFullscreen, listeners, document, loopCanvasSize>>

\* The handlers of the component.
Next ==
  \/ \E m \in {"single", "multiplayer"} : setGameMode(m)
  \/ \E d \in {"easy", "hard"} : setDifficulty(d)
  \/ startGame
  \/ restartGame
  \/ loopEffect
  \/ \E code \in KeyCodes : handleKeyDown(code)
  \/ \E code \in KeyCodes : handleKeyUp(code)
  \/ gameLoop
  \/ toggleFullscreen
  \/ fullscreenSwitch
  \/ exitFullscreen
  \/ handleFullscreenChange
  \/ handleResize
  \/ resizeTimeout

Spec == Init /\ [][Next]_vars

\* ------------------------------------------------------------- matches under way
\* a match that has just started in mode mode and difficulty d: startGame and the
\* game-loop effect have run; the players' events are sched and Math.random()
\* yields stream
MatchStarted(mode, d, sched, stream) ==
  /\ interval = Interval(TRUE, FALSE, TRUE, Size(CANVAS_WIDTH, CANVAS_HEIGHT))
  /\ canvasSize = Size(CANVAS_WIDTH, CANVAS_HEIGHT)
  /\ isFullscreen = FALSE
  /\ resizeTimers = <<>>
  /\ document = WindowedDocument
  /\ loopCanvasSize = Size(CANVAS_WIDTH, CANVAS_HEIGHT)
  /\ randoms = stream
  /\ schedule = sched
  /\ difficulty = d
  /\ gameMode = mode
  /\ gameStarted = TRUE
  /\ gameOver = FALSE
  /\ gameOverReason = ""
  /\ winner = ""
  /\ score = 0
  /\ score2 = 0
  /\ currentSpeed = Settings(difficulty).speed
  /\ snake = InitialSnakes(gameMode, ConstructedSnake(PI)).s1
  /\ snake2 = InitialSnakes(gameMode, ConstructedSnake(PI)).s2
  /\ \E g \in {generateFood(snake, snake2, gameMode, randoms, 0)} :
       g.found /\ food = g.food /\ drawn = g.drawn
  /\ projectiles = <<>>
  /\ keysPressed = NoKeys
  /\ listeners = Listeners(FALSE, TRUE, canvasSize, gameMode)
  /\ now = 0
  /\ ticks = 0
  /\ staleTicks = 0
  /\ pickups = 0
  /\ matches = 1

\* ------------------------------------------------------------- pickups in a row
\* The speed law concerns whole matches with many pickups.  This specification
\* runs the game loop from a match that has just started, for up to MaxRunTicks
\* ticks, on runs in which Math.random() puts each food on the way of a snake, so
\* that the head passes the 15 of the pickup test between two ticks and never
\* within 1 of it: a pickup happens in the tick in which a head comes within 15 of
\* the food, and in no other.  In the hard run the snakes take the food in turn,
\* past the pickup at which the speed cap is reached.
MaxRunTicks == 400

\* Math.random() of the hard duo run: each pair puts the food on the line one of
\* the snakes is moving along, clear of both snakes
HardDuoStream ==
  <<
    <<3165, 4448>>, <<6203, 6085>>, <<4447, 3368>>, <<4884, 7196>>, <<5726, 2290>>,
    <<3646, 8238>>, <<6997, 1220>>, <<2342, 9336>>, <<8334, 95>>, <<452, 144>>,
    <<158, 8734>>, <<9206, 1799>>, <<1442, 7654>>, <<7893, 2906>>, <<2784, 6524>>,
    <<6524, 4059>>, <<4182, 5346>>, <<5201, 5174>>, <<742, 9875>>, <<8617, 667>>,
    <<2038, 8782>>, <<7295, 1779>>, <<3384, 7648>>, <<5925, 2934>>, <<4779, 6474>>,
    <<4505, 4130>>, <<6224, 5257>>, <<3036, 5367>>, <<7592, 4105>>, <<1771, 6432>>,
    <<8877, 3023>>, <<465, 7532>>, <<183, 1230>>, <<9139, 9342>>, <<2652, 9894>>,
    <<6649, 694>>, <<4060, 8708>>, <<5221, 1898>>, <<5509, 7488>>, <<3751, 3136>>,
    <<6999, 6232>>, <<2241, 4408>>, <<8530, 4943>>, <<689, 5715>>, <<244, 2818>>,
    <<9115, 7722>>, <<1534, 1731>>, <<7811, 8820>>, <<2845, 628>>, <<5352, 161>>,
    <<5304, 9287>>, <<4041, 1265>>, <<6615, 8183>>
  >>

\* Math.random() of the easy single run: each pair puts the food on the way of the
\* snake
EasySingleStream ==
  <<
    <<3048, 5721>>, <<3379, 6404>>, <<3710, 7088>>, <<4041, 7770>>, <<4371, 8454>>,
    <<4702, 9136>>, <<5033, 9820>>, <<5520, 105>>, <<5851, 788>>, <<6182, 1471>>,
    <<6512, 2154>>, <<6844, 2837>>, <<7174, 3520>>, <<7505, 4203>>, <<7836, 4886>>,
    <<8167, 5569>>, <<8498, 6252>>, <<8829, 6935>>, <<9160, 7618>>, <<9491, 8301>>,
    <<9821, 8984>>, <<100, 346>>
  >>

\* the runs: in the hard duo run both players hold their left key during the first
\* 5 ticks, in the easy single run the player holds the right key during the
\* first 16 ticks
PickupRuns ==
  { [gameMode |-> "multiplayer", difficulty |-> "hard",
     schedule |-> << <<0, "ArrowLeft", TRUE>>, <<0, "KeyA", TRUE>>,
                     <<5, "ArrowLeft", FALSE>>, <<5, "KeyA", FALSE>> >>,
     randoms |-> HardDuoStream],
    [gameMode |-> "single", difficulty |-> "easy",
     schedule |-> << <<0, "ArrowRight", TRUE>>, <<16, "ArrowRight", FALSE>> >>,
     randoms |-> EasySingleStream] }

InitPickups ==
  \E run \in PickupRuns :
    MatchStarted(run.gameMode, run.difficulty, run.schedule, run.randoms)

\* the interval ticks of a run of at most MaxRunTicks ticks
runGameLoop == gameLoopTick(MaxRunTicks)

NextPickups ==
  \/ runGameLoop
  \/ \E code \in KeyCodes : handleKeyDown(code)
  \/ \E code \in KeyCodes : handleKeyUp(code)

SpecPickups == InitPickups /\ [][NextPickups]_vars

\* ------------------------------------------------------------- turns in a row
\* The angle law concerns the angles tick after tick under turn inputs.  This
\* specification runs the game loop from a duo match that has just started, for up
\* to MaxRunTicks ticks, with turn keys held: the snakes go round in circles clear
\* of each other and of the food, so that the angles run through the values the
\* rotation speed reaches, across pi and -pi in both directions.  In two of the
\* runs player 2 holds the right key for one tick and the left key from then on.
TurnRuns ==
  { [gameMode |-> "multiplayer", difficulty |-> "hard",
     schedule |-> << <<0, "ArrowRight", TRUE>>, <<0, "KeyD", TRUE>>,
                     <<1, "KeyD", FALSE>>, <<1, "KeyA", TRUE>> >>,
     randoms |-> << <<1429, 1429>>, <<8571, 8571>> >>],
    [gameMode |-> "multiplayer", difficulty |-> "easy",
     schedule |-> << <<0, "ArrowLeft", TRUE>>, <<0, "KeyD", TRUE>>,
                     <<1, "KeyD", FALSE>>, <<1, "KeyA", TRUE>> >>,
     randoms |-> << <<1429, 1429>>, <<8571, 8571>> >>],
    [gameMode |-> "multiplayer", difficulty |-> "hard",
     schedule |-> << <<0, "ArrowLeft", TRUE>>, <<0, "KeyA", TRUE>> >>,
     randoms |-> << <<1429, 1429>>, <<8571, 8571>> >>],
    [gameMode |-> "multiplayer", difficulty |-> "easy",
     schedule |-> << <<0, "ArrowLeft", TRUE>>, <<0, "KeyD", TRUE>> >>,
     randoms |-> << <<1429, 1429>>, <<8571, 8571>> >>] }

InitTurns ==
  \E run \in TurnRuns :
    MatchStarted(run.gameMode, run.difficulty, run.schedule, run.randoms)

NextTurns ==
  \/ runGameLoop
  \/ \E code \in KeyCodes : handleKeyDown(code)
  \/ \E code \in KeyCodes : handleKeyUp(code)

SpecTurns == InitTurns /\ [][NextTurns]_vars

\* ------------------------------------------------------------- straight runs
\* The self-collision exemption and the spacing of the chain concern a fresh snake
\* that moves tick after tick with no turn input and no pickup.  This
\* specification runs the game loop from a match that has just started, for up to
\* MaxRunTicks ticks: in single mode the snake runs round the plane on its first
\* heading, head and body crossing the edge on every lap, with the food off the
\* way or with the first food on the way, which it takes, growing by 5; in duo
\* mode, with the food off the way, one player turns away during the first ticks
\* and the other snake runs round the plane on its first heading.
StraightRuns ==
  { [gameMode |-> "single", difficulty |-> "hard", schedule |-> <<>>,
     randoms |-> << <<1429, 1429>>, <<8571, 8571>> >>],
    [gameMode |-> "single", difficulty |-> "easy", schedule |-> <<>>,
     randoms |-> << <<1429, 1429>>, <<8571, 8571>> >>],
    [gameMode |-> "single", difficulty |-> "hard", schedule |-> <<>>,
     randoms |-> << <<3259, 5000>>, <<1429, 1429>>, <<8571, 8571>> >>],
    [gameMode |-> "single", difficulty |-> "easy", schedule |-> <<>>,
     randoms |-> << <<3281, 5000>>, <<1429, 1429>>, <<8571, 8571>> >>],
    [gameMode |-> "multiplayer", difficulty |-> "hard",
     schedule |-> << <<0, "ArrowLeft", TRUE>>, <<21, "ArrowLeft", FALSE>> >>,
     randoms |-> << <<1429, 8571>>, <<8571, 8571>> >>],
    [gameMode |-> "multiplayer", difficulty |-> "hard",
     schedule |-> << <<0, "KeyD", TRUE>>, <<21, "KeyD", FALSE>> >>,
     randoms |-> << <<8571, 8571>>, <<1429, 1429>> >>],
    [gameMode |-> "multiplayer", difficulty |-> "easy",
     schedule |-> << <<0, "KeyA", TRUE>>, <<42, "KeyA", FALSE>> >>,
     randoms |-> << <<1429, 1429>>, <<8571, 1429>> >>],
    [gameMode |-> "multiplayer", difficulty |-> "easy",
     schedule |-> << <<0, "ArrowRight", TRUE>>, <<42, "ArrowRight", FALSE>> >>,
     randoms |-> << <<1429, 1429>>, <<8571, 1429>> >>] }

InitStraight ==
  \E run \in StraightRuns :
    MatchStarted(run.gameMode, run.difficulty, run.schedule, run.randoms)

NextStraight ==
  \/ runGameLoop
  \/ \E code \in KeyCodes : handleKeyDown(code)
  \/ \E code \in KeyCodes : handleKeyUp(code)

SpecStraight == InitStraight /\ [][NextStraight]_vars

\* ------------------------------------------------------------- food at match start
\* The rejection loop of generateFood, one iteration per step, as startGame runs it:
\* initializeSnake has placed the snakes and reset the match and calls
\* generateFood() last; setGameStarted(true) follows when it returns.  Math.random()
\* yields any pair of the region randoms, chosen in the initial state; drawn counts
\* the iterations and stops counting at MaxAttempts.
MaxAttempts == 8

\* regions of Math.random() pairs: (99.97, 300) lies on snake 1's fresh body,
\* (440, 300) within 50 of snake 2's fresh head, the others are clear of both
FoodRegions ==
  { << <<1428, 5000>> >>,
    << <<1428, 5000>>, <<7500, 5000>> >>,
    << <<1428, 5000>>, <<5000, 5266>> >>,
    << <<5000, 5266>>, <<1429, 1429>>, <<8571, 8571>> >> }

\* every pair of every region
RandomPairs == UNION { { reg[i] : i \in 1..Len(reg) } : reg \in FoodRegions }

InitFood ==
  /\ interval = Interval(FALSE, FALSE, FALSE, Size(CANVAS_WIDTH, CANVAS_HEIGHT))
  /\ canvasSize = Size(CANVAS_WIDTH, CANVAS_HEIGHT)
  /\ isFullscreen = FALSE
  /\ listeners = Listeners(FALSE, FALSE, Size(CANVAS_WIDTH, CANVAS_HEIGHT), "single")
  /\ resizeTimers = <<>>
  /\ document = WindowedDocument
  /\ loopCanvasSize = Size(CANVAS_WIDTH, CANVAS_HEIGHT)
  /\ gameStarted = FALSE
  /\ gameOver = FALSE
  /\ gameOverReason = ""
  /\ winner = ""
  /\ difficulty \in {"easy", "hard"}
  /\ gameMode \in {"single", "multiplayer"}
  /\ score = 0
  /\ score2 = 0
  /\ currentSpeed = Settings(difficulty).speed
  /\ snake = InitialSnakes(gameMode, ConstructedSnake(PI)).s1
  /\ snake2 = InitialSnakes(gameMode, ConstructedSnake(PI)).s2
  /\ food = Point(0, 0)
  /\ projectiles = <<>>
  /\ keysPressed = NoKeys
  /\ now = 0
  /\ ticks = 0
  /\ staleTicks = 0
  /\ pickups = 0
  /\ matches = 0
  /\ drawn = 0
  /\ schedule = <<>>
  /\ randoms \in FoodRegions

\* a faulty iteration that gives up after MaxAttempts draws and keeps the last one
foodLoopIteration_Bounded(r) ==
  /\ ~gameStarted
  /\ \E i \in 1..Len(randoms) : randoms[i] = r
  /\ drawn' = IF drawn < MaxAttempts THEN drawn + 1 ELSE drawn
  /\ IF ValidPosition(NewFood(r), snake, snake2, gameMode) \/ drawn >= MaxAttempts
     THEN /\ food' = NewFood(r)
          /\ gameStarted' = TRUE
          /\ listeners' = Listeners(isFullscreen, TRUE, canvasSize, gameMode)
          /\ loopCanvasSize' = canvasSize
     ELSE UNCHANGED <<food, gameStarted, listeners, loopCanvasSize>>
  /\ UNCHANGED <<gameOver, gameOverReason, winner, difficulty, gameMode, score, score2,
                 currentSpeed, snake, snake2, projectiles, keysPressed, interval, now,
                 ticks, staleTicks, pickups, matches, schedule, randoms, canvasSize,
                 isFullscreen, resizeTimers, document>>

\* one iteration of "while (!validPosition)" with Math.random() yielding the pair
\* r: an accepted newFood becomes foodRef.current and startGame goes on to
\* setGameStarted(true), and the render that follows registers the fullscreenchange
\* and resize listeners again; a rejected one leaves the loop running
foodLoopIteration(r) ==
  /\ ~gameStarted
  /\ \E i \in 1..Len(randoms) : randoms[i] = r
  /\ drawn' = IF drawn < MaxAttempts THEN drawn + 1 ELSE drawn
  /\ IF ValidPosition(NewFood(r), snake, snake2, gameMode)
     THEN /\ food' = NewFood(r)
          /\ gameStarted' = TRUE
          /\ listeners' = Listeners(isFullscreen, TRUE, canvasSize, gameMode)
          /\ loopCanvasSize' = canvasSize
     ELSE UNCHANGED <<food, gameStarted, listeners, loopCanvasSize>>
  /\ UNCHANGED <<gameOver, gameOverReason, winner, difficulty, gameMode, score, score2,
                 currentSpeed, snake, snake2, projectiles, keysPressed, interval, now,
                 ticks, staleTicks, pickups, matches, schedule, randoms, canvasSize,
                 isFullscreen, resizeTimers, document>>

NextFood == \E r \in RandomPairs : foodLoopIteration(r)

SpecFood == InitFood /\ [][NextFood]_vars

\* fair random sampling: a pair that Math.random() can yield is not passed over
\* for ever while the loop runs
FairSpecFood == SpecFood /\ \A r \in RandomPairs : WF_vars(foodLoopIteration(r))

\* ------------------------------------------------------------- properties
\* a step of the model that is one interval tick (one run of gameLoop)
IsTick == ticks' = ticks + 1

\* the snake died in this step
Died1 == snake.alive /\ ~snake'.alive
Died2 == snake2.alive /\ ~snake2'.alive

\* C1: in duo mode, at the end of any tick in which both snakes end up dead
\* (by self-collision, head-on collision or body hit), the recorded winner is
\* 'Tie'.  Stated for the ticks that begin with both snakes alive.
C1_BothDeadIsTie ==
  [][IsTick /\ gameMode = "multiplayer" /\ Died1 /\ Died2 => winner' = "Tie"]_vars

\* C2: in duo mode, at the end of any tick in which exactly one snake died, the
\* match is ended, the winner is the other snake and the reason names the cause
\* of that snake's death: its own body (self-hit) or the other snake's body.
C2_OneDeathOtherWins ==
  [][IsTick /\ gameMode = "multiplayer" =>
       /\ Died1 /\ ~Died2 =>
            /\ gameOver'
            /\ winner' = "Player 2 (Blue)"
            /\ \/ gameOverReason' = "Player 1 (Green) hit themselves!" /\ HitsSelf(snake')
               \/ /\ gameOverReason' = "Player 1 (Green) hit Player 2!"
                  /\ HitsBodyOf(snake', snake2')
       /\ Died2 /\ ~Died1 =>
            /\ gameOver'
            /\ winner' = "Player 1 (Green)"
            /\ \/ gameOverReason' = "Player 2 (Blue) hit themselves!" /\ HitsSelf(snake2')
               \/ /\ gameOverReason' = "Player 2 (Blue) hit Player 1!"
                  /\ HitsBodyOf(snake2', snake')]_vars

\* a match of duo mode ended by snake 1 running into the body of snake 2, which
\* survives and wins
C2_Witness ==
  /\ gameMode = "multiplayer" /\ gameOver
  /\ ~snake.alive /\ snake2.alive
  /\ winner = "Player 2 (Blue)"
  /\ gameOverReason = "Player 1 (Green) hit Player 2!"

\* C3: in duo mode, if both snakes are alive when the tick's collisions are
\* resolved and their heads (as moved by the tick) are less than 10 apart, then
\* at the end of the tick both snakes are dead, the match is ended and the
\* winner is 'Tie'.
C3_HeadOnIsTie ==
  [][IsTick /\ gameMode = "multiplayer" /\ snake.alive /\ snake2.alive
       /\ Within(snake'.head, snake2'.head, HEAD_HIT_RADIUS)
     => ~snake'.alive /\ ~snake2'.alive /\ gameOver' /\ winner' = "Tie"]_vars

\* a duo match ended by a head-on collision: both dead, heads less than 10 apart
C3_Witness ==
  /\ gameMode = "multiplayer" /\ gameOver
  /\ ~snake.alive /\ ~snake2.alive
  /\ Within(snake.head, snake2.head, HEAD_HIT_RADIUS)
  /\ gameOverReason = "Head-on collision!"

\* C4: the ended match is terminal: a tick that runs after the match has ended and
\* before a restart (an interval tick that fires after the death is recorded and
\* before the interval is cleared) changes no snake, nor the food, the projectile
\* list, the shared speed, the scores, the winner or the reason.
C4_EndedIsTerminal ==
  [][IsTick /\ gameOver =>
       UNCHANGED <<snake, snake2, food, projectiles, currentSpeed, score, score2,
                   winner, gameOverReason>>]_vars

\* C5: at every tick boundary, a dead participating snake (snake 1, and snake 2 in
\* duo mode) implies that the match is ended with a non-empty reason; a tick of a
\* single-mode match, a death in it included, leaves the winner unset.
C5_DeadImpliesEnded ==
  /\ []((~snake.alive \/ (gameMode = "multiplayer" /\ ~snake2.alive)) =>
         gameOver /\ gameOverReason # "")
  /\ [][IsTick /\ gameMode = "single" => winner' = ""]_vars

\* a single-mode match ended by the snake's death
C5_Witness ==
  /\ gameMode = "single" /\ ~snake.alive
  /\ gameOver /\ gameOverReason = "You hit yourself!" /\ winner = ""

\* the effect the tick has on one snake's score and length, given whether its head
\* (as moved by the tick) is within the pickup radius of the food the tick found
RewardedIff(reaches, sc, scAfter, len, lenAfter) ==
  IF reaches
  THEN scAfter = sc + SCORE_PER_FOOD /\ lenAfter = len + GROWTH_PER_FOOD /\ food' # food
  ELSE scAfter = sc /\ lenAfter = len

\* C6: in a tick where a live snake's head is less than 15 from the food when
\* collisions are resolved, that snake's score increases by exactly 10, its length
\* by exactly 5 and the food is replaced; a snake whose head is not within that
\* radius has its score and length unchanged by the tick.
C6_PickupRewards ==
  [][IsTick /\ ~gameOver =>
       /\ snake.alive =>
            RewardedIff(Within(snake'.head, food, FOOD_PICKUP_RADIUS),
                        score, score', snake.length, snake'.length)
       /\ gameMode = "multiplayer" /\ snake2.alive =>
            RewardedIff(Within(snake2'.head, food, FOOD_PICKUP_RADIUS),
                        score2, score2', snake2.length, snake2'.length)]_vars

\* the food lies in [20, width - 20] x [20, height - 20] of the plane the loop
\* that places it works with
FoodInBounds(f) ==
  /\ f.x >= 20 * PosScale /\ f.x <= worldWidth - 20 * PosScale
  /\ f.y >= 20 * PosScale /\ f.y <= worldHeight - 20 * PosScale

\* the food is at least 50 from the head and at least 30 from every segment of s
FoodKeepsOff(f, s) ==
  /\ ~Within(f, s.head, 50)
  /\ \A i \in 1..Len(s.body) : ~Within(f, s.body[i], 30)

\* C7: every food position generateFood produces (at match start and after each
\* pickup) lies within [20, width-20] x [20, height-20] and, when it is placed, is
\* at least 50 from the head and at least 30 from every body segment of every
\* snake in play (snake 1 in single mode, both snakes in duo mode).
C7_FoodPlacement ==
  [][drawn' # drawn =>
       /\ FoodInBounds(food')
       /\ FoodKeepsOff(food', snake')
       /\ gameMode = "multiplayer" => FoodKeepsOff(food', snake2')]_vars

\* a match that starts with the second candidate as its food, the first one having
\* been rejected for lying within 30 of a body segment of snake 1
C7_Witness ==
  /\ gameStarted /\ ticks = 0 /\ matches = 1
  /\ drawn = 2
  /\ food = NewFood(randoms[2])
  /\ ~Within(NewFood(randoms[1]), snake.head, 50)
  /\ \E i \in 1..Len(snake.body) : Within(NewFood(randoms[1]), snake.body[i], 30)

\* C8: in hard difficulty, after N food pickups in a match (by either snake) the
\* shared speed equals min(5.0 + 0.15 * N, 12.0); in easy difficulty it stays 2.5
\* (speeds in 1/100 unit: 500 + 15 * N, 1200, 250).
C8_SpeedLaw ==
  gameStarted =>
    currentSpeed = IF difficulty = "hard"
                   THEN (IF 500 + 15 * pickups < 1200 THEN 500 + 15 * pickups ELSE 1200)
                   ELSE 250

\* a hard match past the pickup at which the cap is reached, at the cap
C8_Witness ==
  /\ gameStarted /\ difficulty = "hard"
  /\ pickups >= 48
  /\ currentSpeed = 1200

\* the projectiles of owner p that the collision check of this tick examines: the
\* unexpired ones of the list, moved, and the one p's snake s fires in this tick
\* (its cooldown changes), moved
Examined(p, s) ==
  { MoveProjectile(projectiles[i]) :
      i \in { j \in 1..Len(projectiles) :
                projectiles[j].owner = p /\ now' - projectiles[j].createdAt <= 1500 } }
  \cup
  { MoveProjectile(q) :
      q \in IF s'.shootCooldown # s.shootCooldown
            THEN {[x |-> s.head.x, y |-> s.head.y, angle |-> s.angle,
                   vx |-> RDiv(Cos(s.angle) * 8 * PosScale, TrigScale),
                   vy |-> RDiv(Sin(s.angle) * 8 * PosScale, TrigScale),
                   owner |-> p, createdAt |-> now']}
            ELSE {} }

\* in this tick every projectile of owner p (whose snake is s) stays in the list
\* unless it is within 10 of the live head of the other snake, opp; and the
\* slowedUntil of s changes only with a projectile of the other owner, q, within
\* 10 of the head of s
OwnerUntouched(p, s, q, opp) ==
  /\ \A c \in Examined(p, s) :
       ~(opp.alive /\ Within(c, opp.head, 10)) =>
          \E j \in 1..Len(projectiles') : projectiles'[j] = c
  /\ s'.slowedUntil # s.slowedUntil =>
       \E c \in Examined(q, opp) : Within(c, s.head, 10)

\* C9: a projectile never strikes its own owner: a projectile owned by player p is
\* never removed by a hit on p's head and never changes p's slowedUntil, even while
\* it overlaps p's head (as it does on the tick it is fired).
C9_NoSelfStrike ==
  [][IsTick /\ gameMode = "multiplayer" =>
       /\ OwnerUntouched(1, snake, 2, snake2)
       /\ OwnerUntouched(2, snake2, 1, snake)]_vars

\* after the tick in which player 1 fired: the projectile is in the list, within 10
\* of player 1's head, and player 1 has never been slowed
C9_Witness ==
  /\ gameMode = "multiplayer" /\ snake.alive
  /\ snake.slowedUntil = 0
  /\ \E i \in 1..Len(projectiles) :
       /\ projectiles[i].owner = 1
       /\ projectiles[i].createdAt = now
       /\ Within(projectiles[i], snake.head, 10)

\* the projectiles of owner p created at time t
FiredAt(projs, p, t) ==
  { i \in 1..Len(projs) : projs[i].owner = p /\ projs[i].createdAt = t }

\* the shooting of one tick for player p with snake s: during the cooldown no
\* projectile is added and the cooldown stays; a shot sets it to now + 1000
CooldownKept(p, s) ==
  /\ now' < s.shootCooldown =>
       /\ s'.shootCooldown = s.shootCooldown
       /\ FiredAt(projectiles', p, now') = {}
  /\ s'.shootCooldown # s.shootCooldown => s'.shootCooldown = now' + 1000
  /\ Cardinality(FiredAt(projectiles', p, now')) <= 1

\* two projectiles of one owner in the list were fired at least 1000 ms apart
ShotsSpaced ==
  \A i, j \in 1..Len(projectiles) :
    i < j /\ projectiles[i].owner = projectiles[j].owner =>
      projectiles[j].createdAt - projectiles[i].createdAt >= 1000

\* C10: at least SHOOT_COOLDOWN (1000 ms) elapses between two successful shots by
\* the same snake: a fire input while now < shootCooldown adds no projectile and
\* leaves the cooldown unchanged, so holding fire yields at most one projectile per
\* cooldown window; a successful shot sets the cooldown to exactly now + 1000.
C10_ShootCooldown ==
  /\ []ShotsSpaced
  /\ [][IsTick => CooldownKept(1, snake) /\ CooldownKept(2, snake2)]_vars

\* fire held by player 1 through a whole cooldown window: its first and its second
\* projectile are both in the list, and the cooldown of the second shot is running
C10_Witness ==
  /\ keysPressed["ArrowUp"]
  /\ \E i, j \in 1..Len(projectiles) :
       /\ i < j
       /\ projectiles[i].owner = 1 /\ projectiles[j].owner = 1
       /\ snake.shootCooldown = projectiles[j].createdAt + 1000
       /\ now < snake.shootCooldown

\* C11: after the projectile update of any tick no projectile of the list is older
\* (now - createdAt) than PROJECTILE_LIFETIME (1500 ms); with the fixed tick
\* interval, a projectile fired at tick T is absent from the list from tick
\* T + lifetime / tickInterval + 1 on, whether or not it hit anything.
C11_ProjectileLifetime ==
  \A i \in 1..Len(projectiles) :
    /\ now - projectiles[i].createdAt <= 1500
    /\ ticks < (projectiles[i].createdAt \div TICK_MS) + (1500 \div TICK_MS) + 1

\* a projectile in the last tick of its life: the next update drops it
C11_Witness ==
  \E i \in 1..Len(projectiles) :
    /\ now - projectiles[i].createdAt <= 1500
    /\ now + TICK_MS - projectiles[i].createdAt > 1500

\* the projectiles of owner p (fired by snake s) that are within 10 of the head of
\* the live snake opp at the hit resolution of this tick
Striking(p, s, opp) ==
  { c \in Examined(p, s) : opp.alive /\ Within(c, opp.head, 10) }

\* the effect of this tick's hits by projectiles of owner p (fired by snake s, which
\* fires with fireKey) on the other snake, opp: the striking projectiles are
\* removed and opp is slowed until exactly now + 1000; the others of p stay; the
\* shooter's cooldown changes only by its own shot and its slowedUntil only by a
\* hit on the shooter; speed and scores change only with a pickup
HitEffect(p, s, fireKey, q, opp) ==
  Striking(p, s, opp) # {} =>
    /\ \A c \in Striking(p, s, opp) :
         \A j \in 1..Len(projectiles') : projectiles'[j] # c
    /\ opp'.slowedUntil = now' + 1000
    /\ \A c \in Examined(p, s) \ Striking(p, s, opp) :
         \E j \in 1..Len(projectiles') : projectiles'[j] = c
    /\ \A c \in Examined(q, opp) \ Striking(q, opp, s) :
         \E j \in 1..Len(projectiles') : projectiles'[j] = c
    /\ s'.shootCooldown =
         IF keysPressed[fireKey] /\ s.alive /\ now' >= s.shootCooldown
         THEN now' + 1000 ELSE s.shootCooldown
    /\ s'.slowedUntil =
         IF Striking(q, opp, s) # {} THEN now' + 1000 ELSE s.slowedUntil
    /\ pickups' = pickups =>
         currentSpeed' = currentSpeed /\ score' = score /\ score2' = score2

\* C12: a projectile within 10 of the head of the live non-owner snake at hit
\* resolution is removed and that snake's slowedUntil is set to exactly now + 1000
\* (replacing an earlier expiry, not adding to it); the shooter's cooldown and
\* slowedUntil, the shared speed, both scores and every other projectile are left
\* unchanged by the hit.
C12_HitEffect ==
  [][IsTick /\ gameMode = "multiplayer" =>
       /\ HitEffect(1, snake, "ArrowUp", 2, snake2)
       /\ HitEffect(2, snake2, "KeyW", 1, snake)]_vars

\* snake 2 has just been struck by the projectile snake 1 fired one tick earlier
\* (its cooldown began then, and the projectile is gone): slowed until now + 1000
C12_Witness ==
  /\ gameMode = "multiplayer" /\ snake2.alive
  /\ snake2.slowedUntil = now + 1000
  /\ snake.shootCooldown = now - TICK_MS + 1000
  /\ \A j \in 1..Len(projectiles) : projectiles[j].createdAt # now - TICK_MS

\* the head lies in [0, width) x [0, height)
HeadInPlane(s) ==
  /\ 0 <= s.head.x /\ s.head.x < worldWidth
  /\ 0 <= s.head.y /\ s.head.y < worldHeight

\* C13: after every tick each live snake's head satisfies 0 <= x < width and
\* 0 <= y < height: a head driven to exactly width (or height), or to a negative
\* coordinate, is renormalised into the half-open range [0, dim).
C13_HeadInHalfOpenRange ==
  gameStarted =>
    /\ snake.alive => HeadInPlane(snake)
    /\ gameMode = "multiplayer" /\ snake2.alive => HeadInPlane(snake2)

\* angle equals targetAngle, which lies in (-pi, pi]
AngleNormal(s) ==
  /\ s.angle = s.targetAngle
  /\ -PI < s.targetAngle /\ s.targetAngle <= PI

\* C14: after every tick and for any sequence of left/right turn inputs, every
\* snake's angle equals its targetAngle and targetAngle lies in the half-open
\* interval (-pi, pi], so the value -pi itself never occurs.
C14_AngleNormalised == AngleNormal(snake) /\ AngleNormal(snake2)

\* a snake that has taken no food and is on its first heading: length 15 with its
\* 15 segments
StraightSinceStart(s, heading) ==
  /\ s.length = INITIAL_LENGTH
  /\ Len(s.body) = INITIAL_LENGTH
  /\ s.angle = heading

\* a fresh snake: alive, no food taken, still on its first heading
FreshStraight(s, heading) == s.alive /\ StraightSinceStart(s, heading)

\* C15: a freshly initialised snake of length 15 that receives no turn input and
\* picks up no food never dies by self-collision, for any number of ticks,
\* including ticks in which its head or body crosses a plane edge: no segment with
\* index >= 5 comes within 6 of the head (segments 0..4 are never tested).
C15_StraightNeverSelfCollides ==
  /\ StraightSinceStart(snake, 0) => ~HitsSelf(snake)
  /\ gameMode = "multiplayer" /\ StraightSinceStart(snake2, PI) => ~HitsSelf(snake2)

\* snake 1 on its way across the right edge: the head has wrapped to the left of
\* the plane while the tail is still at the right
C15_Witness ==
  /\ FreshStraight(snake, 0)
  /\ snake.head.x < SEGMENT_SPACING * PosScale
  /\ snake.body[INITIAL_LENGTH].x > worldWidth \div 2
  /\ snake.body[SELF_HIT_SKIP + 1].x > worldWidth \div 2

\* the key map with only snake 1's turn keys left
TurnKeysOnly(keys) ==
  [k \in DOMAIN keys |-> IF k \in {"ArrowLeft", "ArrowRight"} THEN keys[k] ELSE FALSE]

\* one tick of a single-mode match: snake 1 moves as its turn keys alone dictate,
\* nothing of snake 2, of the projectiles, of the slows and cooldowns or of the
\* winner changes, and the match ends only by snake 1 running into itself
SingleTick ==
  /\ projectiles' = <<>>
  /\ snake2' = snake2
  /\ score2' = score2
  /\ winner' = winner
  /\ snake'.slowedUntil = snake.slowedUntil
  /\ snake'.shootCooldown = snake.shootCooldown
  /\ snake.alive =>
       \E m \in {moveSnake(updateSnake(snake, TRUE, TurnKeysOnly(keysPressed), difficulty),
                           now', currentSpeed)} :
         /\ snake'.head = m.head
         /\ snake'.angle = m.angle
         /\ Len(snake'.body) = Len(m.body)
  /\ snake.alive /\ ~snake'.alive =>
       HitsSelf(snake') /\ gameOver' /\ gameOverReason' = "You hit yourself!"
  /\ ~gameOver /\ gameOver' => snake.alive /\ ~snake'.alive
  /\ pickups' # pickups => ReachesFood(snake', food)

\* C16: in single mode the projectile list is empty in every reachable state, fire
\* inputs and player-2 inputs change nothing, and the only core event that ends the
\* match is snake 1's self-collision: the stored state of snake 2 never causes a
\* death, a pickup or a slow.
C16_SingleMode ==
  /\ [](gameMode = "single" => projectiles = <<>> /\ winner = "")
  /\ [][IsTick /\ gameMode = "single" => SingleTick]_vars

\* C17: inter-snake collision is evaluated only when both snakes are still alive
\* after the self-collision checks: in a tick in which snake 1 dies by
\* self-collision, snake 2 is not killed by a head-on collision in that tick, and
\* the winner and reason recorded for snake 1's self-hit are not overwritten by an
\* inter-snake outcome.
C17_SelfHitShieldsInterSnake ==
  [][IsTick /\ gameMode = "multiplayer" /\ ~gameOver
       /\ snake.alive /\ snake2.alive /\ HitsSelf(snake')
     => /\ ~snake'.alive
        /\ HeadOn(snake', snake2') => snake2'.alive \/ HitsSelf(snake2')
        /\ gameOverReason' \notin {"Head-on collision!", "Player 1 (Green) hit Player 2!"}
        /\ winner' # "Tie"]_vars

\* both snakes are alive in a duo match and, after this tick's moves, both heads
\* are within the pickup radius of the food as it lies when collisions are resolved
BothInRange ==
  /\ gameMode = "multiplayer" /\ ~gameOver
  /\ snake.alive /\ snake2.alive
  /\ ReachesFood(snake', food) /\ ReachesFood(snake2', food)

\* C18: in duo mode, if both live snakes' heads are within the pickup radius (15)
\* of the food when the tick's collision resolution begins, each of them receives
\* its own reward (+10 score, +5 length) in that tick, and the rewards are kept
\* even if the same tick ends the match, for example by a head-on collision.
C18_BothRewarded ==
  [][IsTick /\ BothInRange
     => /\ score' = score + SCORE_PER_FOOD
        /\ score2' = score2 + SCORE_PER_FOOD
        /\ snake'.length = snake.length + GROWTH_PER_FOOD
        /\ snake2'.length = snake2.length + GROWTH_PER_FOOD]_vars

\* C19: the food spawner is triggered at most once per tick: even when both
\* snakes' heads are within pickup range of the food in the same tick, the food is
\* relocated exactly once in that tick.
C19_OneSpawnPerTick ==
  [][IsTick => pickups' <= pickups + 1 /\ (BothInRange => pickups' = pickups + 1)]_vars

\* C20: in duo mode, in a tick with no head-on collision (and no self-collision),
\* each snake whose head is within 6 of any body segment of the other snake dies in
\* that tick, and only that head's owner dies by this rule; the rule applies to
\* snake 2 hitting snake 1's body exactly as to snake 1 hitting snake 2's body,
\* including when both happen in the same tick.
C20_BodyHitSymmetric ==
  [][IsTick /\ gameMode = "multiplayer" /\ ~gameOver
       /\ snake.alive /\ snake2.alive
       /\ ~HeadOn(snake', snake2') /\ ~HitsSelf(snake') /\ ~HitsSelf(snake2')
     => /\ snake'.alive = ~HitsBodyOf(snake', snake2')
        /\ snake2'.alive = ~HitsBodyOf(snake2', snake')]_vars

\* the head s2 of a snake one tick after s, when the snake is alive and under a
\* slow effect as it moves: it has advanced by 40% of the shared speed along its
\* heading
SlowedAdvance(s, s2) ==
  s.alive /\ now' < s2.slowedUntil =>
    \E v \in {RDiv(currentSpeed * 40, 100)} :
      /\ v > 0
      /\ s2.head = Point(WrapHead(s.head.x + RDiv(Cos(s2.angle) * v, TrigScale), worldWidth),
                         WrapHead(s.head.y + RDiv(Sin(s2.angle) * v, TrigScale), worldHeight))

\* C21: while a snake's slow effect is active (now < slowedUntil) its head advances
\* each tick by 40% of the current shared speed: a slowed snake keeps moving, at
\* reduced speed, for the second the effect lasts.
C21_SlowedKeepsMoving ==
  [][IsTick /\ gameMode = "multiplayer" /\ ~gameOver
     => SlowedAdvance(snake, snake') /\ SlowedAdvance(snake2, snake2')]_vars

\* the hit test of this tick, on the snake v (v2 one tick later) and the
\* projectiles of owner p fired by snake s, is made on the head as it is after this
\* tick's move
HitTestOnMovedHead(p, s, v, v2) ==
  v2.slowedUntil = now' + SLOW_DURATION
    <=> v.alive /\ \E c \in Examined(p, s) : Within(c, v2.head, 10)

\* a snake struck in this tick, and not under an earlier slow, still makes this
\* tick's move at the full shared speed
FullSpeedWhenStruck(v, v2) ==
  v.alive /\ v2.slowedUntil = now' + SLOW_DURATION /\ now' >= v.slowedUntil =>
    v2.head = Point(WrapHead(v.head.x + RDiv(Cos(v2.angle) * currentSpeed, TrigScale),
                             worldWidth),
                    WrapHead(v.head.y + RDiv(Sin(v2.angle) * currentSpeed, TrigScale),
                             worldHeight))

\* C22: within each tick every snake's steering, head advance and body
\* recomputation happen before projectiles are advanced, expired and hit-tested: the
\* projectile hit test of tick t uses the heads' positions after their tick-t move,
\* and a slow effect applied by a hit in tick t first reduces the struck snake's
\* movement in tick t+1.
C22_SnakesMoveBeforeProjectiles ==
  [][IsTick /\ gameMode = "multiplayer" /\ ~gameOver
     => /\ HitTestOnMovedHead(1, snake, snake2, snake2')
        /\ HitTestOnMovedHead(2, snake2, snake, snake')
        /\ FullSpeedWhenStruck(snake, snake')
        /\ FullSpeedWhenStruck(snake2, snake2')]_vars

\* the square of the wrap-aware distance between two points: on each axis the
\* shorter way round the plane
WrapDistance2(a, b) ==
  LET dx == WrapDelta(a.x - b.x, worldWidth)
      dy == WrapDelta(a.y - b.y, worldHeight)
  IN  dx * dx + dy * dy

\* the square of the wrap-aware distance down the chain of s: from the head to
\* segment 0 (i = 1), from segment i - 2 to segment i - 1 otherwise
Gap2(s, i) ==
  IF i = 1 THEN WrapDistance2(s.head, s.body[1])
  ELSE WrapDistance2(s.body[i - 1], s.body[i])

\* a distance, given by its square, of SEGMENT_SPACING to the rounding of the
\* arithmetic in 1/100 unit
AtSpacing(d2) == Abs(Isqrt(d2) - SEGMENT_SPACING * PosScale) <= 2

\* a distance, given by its square, of no more than SEGMENT_SPACING
WithinSpacing(d2) == Isqrt(d2) <= SEGMENT_SPACING * PosScale + 2

\* head to segment 0 and every segment to the next are SEGMENT_SPACING apart
EvenlySpaced(s) == \A i \in 1..Len(s.body) : AtSpacing(Gap2(s, i))

\* the chain of s is SEGMENT_SPACING apart from the head down to some segment;
\* the segments behind it lie on one point (the tail the last pickups added them
\* at), and the distance in between is no more than SEGMENT_SPACING
DrawnOut(s) ==
  \E k \in 1..(Len(s.body) + 1) :
    /\ \A i \in 1..(k - 1) : AtSpacing(Gap2(s, i))
    /\ k <= Len(s.body) => WithinSpacing(Gap2(s, k))
    /\ \A i \in (k + 1)..Len(s.body) : Gap2(s, i) = 0

\* a tick in which the snake s, alive, moves in a straight line and which leaves
\* it (t) with no growth pending: as many segments as its target length
StraightTick(s, t) ==
  /\ IsTick
  /\ s.alive
  /\ t.angle = s.angle
  /\ Len(t.body) = t.length

SettledStaysSpaced(s, t) ==
  StraightTick(s, t) =>
    /\ DrawnOut(t)
    /\ t.length = INITIAL_LENGTH => EvenlySpaced(t)
    /\ Len(s.body) = s.length /\ EvenlySpaced(s) => EvenlySpaced(t)

CaughtUp(s, s2) ==
  s.alive =>
    /\ Len(s2.body) = s.length
    /\ s2.length \in {s.length, s.length + GROWTH_PER_FOOD}
    /\ Len(s2.body) <= s2.length

\* C24: at the end of every movement step of a live snake the number of body
\* segments equals its target length: after a pickup raises the length by 5, the
\* body is 5 segments short only until that snake's next movement step, and it is
\* never longer than the target length.
C24_BodyMatchesLength ==
  /\ [](Len(snake.body) <= snake.length /\ Len(snake2.body) <= snake2.length)
  /\ [][IsTick => /\ CaughtUp(snake, snake')
                  /\ gameMode = "multiplayer" => CaughtUp(snake2, snake2')]_vars

\* snake 1 one movement step after its first pickup: 20 segments for a target
\* length of 20, the new ones still lying on the old tail
C24_Witness ==
  /\ snake.alive
  /\ snake.length = INITIAL_LENGTH + GROWTH_PER_FOOD
  /\ Len(snake.body) = INITIAL_LENGTH + GROWTH_PER_FOOD
  /\ snake.body[INITIAL_LENGTH + GROWTH_PER_FOOD] = snake.body[INITIAL_LENGTH + 1]

\* a and b are less than r apart in the plane as drawn, the seam not crossed
PlainNear(a, b, r) ==
  /\ Abs(a.x - b.x) < r * PosScale
  /\ Abs(a.y - b.y) < r * PosScale
  /\ (a.x - b.x) * (a.x - b.x) + (a.y - b.y) * (a.y - b.y) < (r * PosScale) * (r * PosScale)

\* every collision, pickup and hit that this tick registers has its two points
\* less than the radius apart by plain distance
PlainCauses ==
  /\ gameOverReason' = "Head-on collision!" => PlainNear(snake'.head, snake2'.head, 10)
  /\ gameOverReason' = "Player 1 (Green) hit Player 2!" =>
       \E i \in 1..Len(snake2'.body) : PlainNear(snake'.head, snake2'.body[i], 6)
  /\ gameOverReason' = "Player 2 (Blue) hit Player 1!" =>
       \E i \in 1..Len(snake'.body) : PlainNear(snake2'.head, snake'.body[i], 6)
  /\ gameOverReason' \in {"You hit yourself!", "Player 1 (Green) hit themselves!"} =>
       \E i \in 6..Len(snake'.body) : PlainNear(snake'.head, snake'.body[i], 6)
  /\ gameOverReason' = "Player 2 (Blue) hit themselves!" =>
       \E i \in 6..Len(snake2'.body) : PlainNear(snake2'.head, snake2'.body[i], 6)
  /\ score' # score => PlainNear(snake'.head, food, 15)
  /\ score2' # score2 => PlainNear(snake2'.head, food, 15)
  /\ snake2'.slowedUntil # snake2.slowedUntil =>
       \E c \in Examined(1, snake) : PlainNear(c, snake2.head, 10)
  /\ snake'.slowedUntil # snake.slowedUntil =>
       \E c \in Examined(2, snake2) : PlainNear(c, snake.head, 10)

\* C25: self-collision, inter-snake collision, food pickup and projectile hits all
\* use plain (non-wrap) Euclidean distance: a head and a segment, food or
\* projectile that are adjacent only across the wrap seam (one near coordinate 0,
\* the other near width or height) never register a collision, pickup or hit.
C25_PlainDistanceOnly == [][IsTick /\ ~gameOver => PlainCauses]_vars

\* a duo match going on with both snakes alive and their heads less than 10 apart
\* across the seam only: one at the top edge, the other at the bottom edge
C25_Witness ==
  /\ gameMode = "multiplayer" /\ gameStarted /\ ~gameOver
  /\ snake.alive /\ snake2.alive
  /\ WrapDistance2(snake.head, snake2.head) < (10 * PosScale) * (10 * PosScale)
  /\ ~PlainNear(snake.head, snake2.head, 10)

\* no pair of the region gives a point that clears both exclusion radii
NoValidPoint ==
  \A i \in 1..Len(randoms) : ~ValidPosition(NewFood(randoms[i]), snake, snake2, gameMode)

\* C26: generateFood has no attempt bound: when no point of the region satisfies
\* both exclusion radii it never returns, however many draws it has made, so the
\* match start that called it never completes; it returns only with a point that
\* satisfies them; and when at least one valid point exists it returns, under fair
\* random sampling.
C26_FoodLoop ==
  /\ [](gameStarted => ValidPosition(food, snake, snake2, gameMode))
  /\ [](NoValidPoint => ~gameStarted)
  /\ (NoValidPoint ~> drawn = MaxAttempts)
  /\ (~NoValidPoint ~> gameStarted)

\* the loop still running after MaxAttempts draws, none of which was accepted
C26_Witness == NoValidPoint /\ drawn = MaxAttempts /\ ~gameStarted

\* a snake as a match start must leave it: alive, target length 15, 15 segments in
\* a line 8 apart, the first 8 from the head, and no slow or cooldown pending
FreshlyPlaced(s) ==
  /\ s.alive
  /\ s.length = INITIAL_LENGTH
  /\ Len(s.body) = INITIAL_LENGTH
  /\ EvenlySpaced(s)
  /\ \A i \in 1..Len(s.body) :
       (s.head.x - s.body[i].x) * (s.head.x - s.body[i].x)
         + (s.head.y - s.body[i].y) * (s.head.y - s.body[i].y)
       = (i * SEGMENT_SPACING * PosScale) * (i * SEGMENT_SPACING * PosScale)
  /\ s.body[1].x = s.head.x - RDiv(Cos(s.angle) * SEGMENT_SPACING * PosScale, TrigScale)
  /\ s.slowedUntil = 0
  /\ s.shootCooldown = 0

\* a step of startGame or restartGame
IsMatchStart == matches' = matches + 1

\* C27: after startGame or restartGame, whatever the previous match's final state,
\* every participating snake is alive with target length 15 and exactly 15 body
\* segments spaced 8 apart behind its head, both scores are 0, winner and reason
\* are empty, the projectile list is empty, slow and cooldown timers are 0, the
\* match is running and the shared speed equals the selected difficulty's base
\* speed.
C27_MatchStartResets ==
  [][IsMatchStart
     => /\ FreshlyPlaced(snake')
        /\ gameMode' = "multiplayer" => FreshlyPlaced(snake2')
        /\ score' = 0 /\ score2' = 0
        /\ winner' = "" /\ gameOverReason' = ""
        /\ projectiles' = <<>>
        /\ gameStarted' /\ ~gameOver'
        /\ currentSpeed' = Settings(difficulty').speed]_vars

\* a second match of duo mode just started by restartGame, after the first one
\* has been played and has ended: everything is reset
C27_Witness ==
  /\ matches = 2 /\ gameMode = "multiplayer"
  /\ gameStarted /\ ~gameOver /\ now > 0
  /\ FreshlyPlaced(snake) /\ FreshlyPlaced(snake2)
  /\ score = 0 /\ score2 = 0 /\ projectiles = <<>>
  /\ currentSpeed = Settings(difficulty).speed

\* the target length len that goes with the score sc
LengthForScore(sc, len) ==
  /\ sc % SCORE_PER_FOOD = 0
  /\ len = INITIAL_LENGTH + GROWTH_PER_FOOD * (sc \div SCORE_PER_FOOD)

\* score sc and target length len change together: by +10 and +5, or back to 0
\* and 15 at a match start
ChangeTogether(sc, len, sc2, len2) ==
  \/ sc2 = sc /\ len2 = len
  \/ sc2 = sc + SCORE_PER_FOOD /\ len2 = len + GROWTH_PER_FOOD
  \/ IsMatchStart /\ sc2 = 0 /\ len2 = INITIAL_LENGTH

\* C28: in every reachable state of a match, each snake's target length equals
\* 15 + 5 * (its score / 10): score and length only ever change together, by +10
\* and +5, and are reset together on restart.
C28_LengthTracksScore ==
  /\ [](LengthForScore(score, snake.length) /\ LengthForScore(score2, snake2.length))
  /\ [][/\ ChangeTogether(score, snake.length, score', snake'.length)
        /\ ChangeTogether(score2, snake2.length, score2', snake2'.length)]_vars

\* the number of projectiles of owner p in the list
OwnedBy(p) == Cardinality({ i \in 1..Len(projectiles) : projectiles[i].owner = p })

\* C29: at the end of every tick the active projectile list holds at most 2
\* projectiles per owner (at most 4 in total), for any pattern of fire inputs,
\* because the cooldown is 1000 ms and the lifetime is 1500 ms.
C29_AtMostTwoPerOwner ==
  /\ OwnedBy(1) <= 2
  /\ OwnedBy(2) <= 2
  /\ Len(projectiles) <= 4

\* the fire key held all along: the owner's third shot has just been fired and
\* the second is still in flight; the opponent has never been struck, so the first
\* has gone by expiry
C29_Witness ==
  \E p \in {1, 2} :
    /\ OwnedBy(p) = 2
    /\ \E i, j \in 1..Len(projectiles) :
         /\ projectiles[i].owner = p /\ projectiles[j].owner = p
         /\ projectiles[i].createdAt = now
         /\ projectiles[j].createdAt >= SHOOT_COOLDOWN
         /\ projectiles[j].createdAt < now
    /\ snake.slowedUntil = 0 /\ snake2.slowedUntil = 0

====
